---- MODULE Spec2Model ----
(***************************************************************************)
(* Carbon-emission calculator (carbon-emission-app): the calculation       *)
(* engine of utils/calculations.js, the weather lookups, the forecast and  *)
(* the weather adjustment of services/bmkgService.js, the route requests   *)
(* and route adjustments of services/directionsService.js, retryOperation  *)
(* of utils/errorHandler.js and the App component's calculateEmissions.    *)
(*                                                                         *)
(* JavaScript numbers are modelled as exact signed decimals (a mantissa    *)
(* of base-10^4 limbs and a count of decimal places) plus NaN.  The        *)
(* representation error of IEEE-754 doubles (relative 2^-53 per operation) *)
(* is not modelled: a product is the exact product, and Number.toFixed     *)
(* rounds that exact value half away from zero, as ECMAScript specifies    *)
(* for the value it is given.  -0 is identified with 0.                    *)
(***************************************************************************)
EXTENDS Integers, Sequences, FiniteSets, TLC

VARIABLES
    call,             \* a caller's call of one exported function
    ret,              \* and its outcome
    appMode,          \* App state mode: 'aktual' or 'prediksi'
    route,            \* App state: the selected route
    transportMode,    \* App state: the selected transport mode(s)
    appScenario,      \* App state scenario: the what-if scenario
    calculationData,  \* App state: the result records shown
    loading,          \* App state
    error,            \* App state
    appDistance,      \* App state distance
    selectorMode,     \* TransportModeSelector state: the radio selection
    selectedModes,    \* TransportModeSelector state: the checked modes
    runs,             \* calculateEmissions invocations suspended at an await
    effectPending,    \* a render changed a dependency of App's effect
    events,           \* the number of user events handled so far
    routeRequests,    \* directionsService: the getRouteData invocations made
    lookups,          \* bmkgService: the getCurrentWeather invocations made
    awaiting,         \* the service function called is at its await
    retry             \* errorHandler: the retryOperation invocation

callVars == <<call, ret>>

appVars ==
    <<appMode, route, transportMode, appScenario, calculationData, loading,
      error, appDistance, selectorMode, selectedModes, runs, effectPending,
      events>>

serviceVars == <<lookups, awaiting, retry>>

vars == <<callVars, appVars, serviceVars, routeRequests>>

(***************************************************************************)
(* Natural numbers of any size: little-endian sequences of limbs in        *)
(* 0 .. Base-1 without leading zero limbs; <<>> is zero.                   *)
(***************************************************************************)
Base == 10^4

RECURSIVE BigNorm(_)
BigNorm(b) ==
    IF b = <<>> THEN <<>>
    ELSE IF b[Len(b)] = 0 THEN BigNorm(SubSeq(b, 1, Len(b) - 1))
    ELSE b

RECURSIVE BigFromNat(_)
BigFromNat(n) ==
    IF n = 0 THEN <<>> ELSE <<n % Base>> \o BigFromNat(n \div Base)

RECURSIVE BigAddC(_, _, _)
BigAddC(a, b, c) ==
    IF a = <<>> /\ b = <<>> THEN BigFromNat(c)
    ELSE LET x == IF a = <<>> THEN 0 ELSE Head(a)
             y == IF b = <<>> THEN 0 ELSE Head(b)
             s == x + y + c
         IN  <<s % Base>> \o BigAddC(IF a = <<>> THEN <<>> ELSE Tail(a),
                                     IF b = <<>> THEN <<>> ELSE Tail(b),
                                     s \div Base)

BigAdd(a, b) == BigNorm(BigAddC(a, b, 0))

\* a * k + c for a limb-sized k
RECURSIVE BigMulSmallC(_, _, _)
BigMulSmallC(a, k, c) ==
    IF a = <<>> THEN BigFromNat(c)
    ELSE LET p == Head(a) * k + c
         IN  <<p % Base>> \o BigMulSmallC(Tail(a), k, p \div Base)

RECURSIVE BigMul(_, _)
BigMul(a, b) ==
    IF a = <<>> \/ b = <<>> THEN <<>>
    ELSE LET rest == BigMul(a, Tail(b))
         IN  BigAdd(BigMulSmallC(a, Head(b), 0),
                    IF rest = <<>> THEN <<>> ELSE <<0>> \o rest)

\* floor(a / d) and a mod d for a limb-sized d
RECURSIVE BigDivRem(_, _)
BigDivRem(a, d) ==
    IF a = <<>> THEN [q |-> <<>>, r |-> 0]
    ELSE LET hi  == BigDivRem(Tail(a), d)
             cur == hi.r * Base + Head(a)
         IN  [q |-> <<cur \div d>> \o hi.q, r |-> cur % d]

\* a * 10^p
BigShl10(a, p) ==
    IF a = <<>> THEN <<>>
    ELSE BigNorm([i \in 1 .. (p \div 4) |-> 0]
                 \o BigMulSmallC(a, 10^(p % 4), 0))

\* floor(a / 10^p)
BigShr10(a, p) ==
    IF Len(a) <= p \div 4 THEN <<>>
    ELSE BigNorm(BigDivRem(SubSeq(a, (p \div 4) + 1, Len(a)), 10^(p % 4)).q)

\* -1, 0, 1 as a < b, a = b, a > b
RECURSIVE BigCmp(_, _)
BigCmp(a, b) ==
    IF Len(a) # Len(b) THEN (IF Len(a) < Len(b) THEN -1 ELSE 1)
    ELSE IF a = <<>> THEN 0
    ELSE IF a[Len(a)] # b[Len(b)]
         THEN (IF a[Len(a)] < b[Len(b)] THEN -1 ELSE 1)
    ELSE BigCmp(SubSeq(a, 1, Len(a) - 1), SubSeq(b, 1, Len(b) - 1))

(***************************************************************************)
(* JavaScript values: numbers, undefined, and the function objects every   *)
(* object inherits from Object.prototype.                                  *)
(***************************************************************************)
NaN == [t |-> "number", nan |-> TRUE, neg |-> FALSE, mant |-> <<>>, scale |-> 0]

\* the number (-1)^neg * mant / 10^scale in lowest decimal terms
RECURSIVE Dec(_, _, _)
Dec(neg, mant, scale) ==
    IF mant = <<>>
    THEN [t |-> "number", nan |-> FALSE, neg |-> FALSE, mant |-> <<>>, scale |-> 0]
    ELSE IF scale > 0 /\ mant[1] % 10 = 0
    THEN Dec(neg, BigShr10(mant, 1), scale - 1)
    ELSE [t |-> "number", nan |-> FALSE, neg |-> neg, mant |-> mant, scale |-> scale]

\* the decimal literal n / 10^scale
Lit(n, scale) == Dec(n < 0, BigFromNat(IF n < 0 THEN -n ELSE n), scale)

Undefined == [t |-> "undefined"]

Null == [t |-> "null"]

FunctionObject == [t |-> "function"]

\* ToNumber
ToNumber(v) == IF v.t = "number" THEN v ELSE NaN

\* ToBoolean
Truthy(v) ==
    CASE v.t = "number"    -> ~v.nan /\ v.mant # <<>>
      [] v.t = "undefined" -> FALSE
      [] v.t = "null"      -> FALSE
      [] v.t = "string"    -> v.chars # <<>>
      [] OTHER             -> TRUE

\* a || b
OrElse(a, b) == IF Truthy(a) THEN a ELSE b

\* a * b
Mul(a, b) ==
    LET x == ToNumber(a)
        y == ToNumber(b)
    IN  IF x.nan \/ y.nan THEN NaN
        ELSE Dec(x.neg # y.neg, BigMul(x.mant, y.mant), x.scale + y.scale)

\* a < b on numbers (false when either is NaN)
Less(a, b) ==
    IF a.nan \/ b.nan THEN FALSE
    ELSE LET s == IF a.scale > b.scale THEN a.scale ELSE b.scale
             x == BigShl10(a.mant, s - a.scale)
             y == BigShl10(b.mant, s - b.scale)
         IN  CASE a.neg /\ ~b.neg -> TRUE
               [] ~a.neg /\ b.neg -> FALSE
               [] a.neg /\ b.neg  -> BigCmp(x, y) = 1
               [] OTHER           -> BigCmp(x, y) = -1

\* Number.prototype.toFixed(digits): the decimal string, as its sign and
\* its count of units of 10^-digits ("NaN" for NaN)
toFixed(x, digits) ==
    IF x.nan THEN [nan |-> TRUE, neg |-> FALSE, units |-> <<>>, digits |-> digits]
    ELSE LET n == IF x.scale <= digits
                  THEN BigShl10(x.mant, digits - x.scale)
                  ELSE BigShr10(BigAdd(x.mant,
                                       BigShl10(<<5>>, x.scale - digits - 1)),
                                x.scale - digits)
         IN  [nan |-> FALSE, neg |-> x.neg, units |-> n, digits |-> digits]

\* parseFloat of a string toFixed produced
parseFloat(s) == IF s.nan THEN NaN ELSE Dec(s.neg, s.units, s.digits)

\* own property lookup with the prototype chain of a plain object
ObjectPrototype == {"constructor", "toString", "valueOf", "hasOwnProperty"}

Get(obj, key) ==
    IF key \in DOMAIN obj THEN obj[key]
    ELSE IF key \in ObjectPrototype THEN FunctionObject
    ELSE Undefined

(***************************************************************************)
(* constants/config.js                                                     *)
(***************************************************************************)
consumptionRates ==
    [mobil |-> Lit(69, 3), bus |-> Lit(91, 3), motor |-> Lit(2, 2),
     ka_argo |-> Lit(5, 2), kcic |-> Lit(36, 3)]

emissionFactors ==
    [bahan_bakar |-> Lit(26, 1), listrik_grid |-> Lit(85, 2),
     biofuel |-> Lit(5, 1), listrik_renewable |-> Lit(0, 0)]

staticDistances == [ka_argo |-> Lit(150, 0), kcic |-> Lit(142, 0)]

(***************************************************************************)
(* utils/calculations.js                                                   *)
(***************************************************************************)
\* a property that is not set, or an argument that is not passed
NoValue == "<undefined>"

\* the two traffic multipliers exchanged
getAdjustmentFactor_TrafficSwapped(params) ==
    LET f0 == Lit(1, 0)
        f1 == IF params.traffic = "padat" THEN Mul(f0, Lit(12, 1)) ELSE f0
        f2 == IF params.traffic = "sangat_padat" THEN Mul(f1, Lit(11, 1)) ELSE f1
        f3 == IF params.cuaca = "hujan_ringan" THEN Mul(f2, Lit(105, 2)) ELSE f2
        f4 == IF params.cuaca = "hujan_lebat" THEN Mul(f3, Lit(11, 1)) ELSE f3
        f5 == IF params.loadFactor = "peak" THEN Mul(f4, Lit(115, 2)) ELSE f4
    IN  f5

\* the first traffic test written as "not normal": it also fires for
\* sangat_padat, for a missing value and for an unrecognized one
getAdjustmentFactor_NotNormal(params) ==
    LET f0 == Lit(1, 0)
        f1 == IF params.traffic # "normal" THEN Mul(f0, Lit(11, 1)) ELSE f0
        f2 == IF params.traffic = "sangat_padat" THEN Mul(f1, Lit(12, 1)) ELSE f1
        f3 == IF params.cuaca = "hujan_ringan" THEN Mul(f2, Lit(105, 2)) ELSE f2
        f4 == IF params.cuaca = "hujan_lebat" THEN Mul(f3, Lit(11, 1)) ELSE f3
        f5 == IF params.loadFactor = "peak" THEN Mul(f4, Lit(115, 2)) ELSE f4
    IN  f5

\* the first traffic test written as a substring test on 'padat': it also
\* fires for sangat_padat, which then gets both traffic multipliers
getAdjustmentFactor_PadatAsSubstring(params) ==
    LET f0 == Lit(1, 0)
        f1 == IF params.traffic \in {"padat", "sangat_padat"}
              THEN Mul(f0, Lit(11, 1)) ELSE f0
        f2 == IF params.traffic = "sangat_padat" THEN Mul(f1, Lit(12, 1)) ELSE f1
        f3 == IF params.cuaca = "hujan_ringan" THEN Mul(f2, Lit(105, 2)) ELSE f2
        f4 == IF params.cuaca = "hujan_lebat" THEN Mul(f3, Lit(11, 1)) ELSE f3
        f5 == IF params.loadFactor = "peak" THEN Mul(f4, Lit(115, 2)) ELSE f4
    IN  f5

getAdjustmentFactor(params) ==
    LET f0 == Lit(1, 0)
        f1 == IF params.traffic = "padat" THEN Mul(f0, Lit(11, 1)) ELSE f0
        f2 == IF params.traffic = "sangat_padat" THEN Mul(f1, Lit(12, 1)) ELSE f1
        f3 == IF params.cuaca = "hujan_ringan" THEN Mul(f2, Lit(105, 2)) ELSE f2
        f4 == IF params.cuaca = "hujan_lebat" THEN Mul(f3, Lit(11, 1)) ELSE f3
        f5 == IF params.loadFactor = "peak" THEN Mul(f4, Lit(115, 2)) ELSE f4
    IN  f5

calculateFuelConsumption(mode, distance, adjustments) ==
    LET baseRate         == OrElse(Get(consumptionRates, mode), Lit(0, 0))
        adjustmentFactor == getAdjustmentFactor(adjustments)
    IN  Mul(Mul(baseRate, distance), adjustmentFactor)

calculateEmission(fuelConsumption, energySource) ==
    LET source == IF energySource = NoValue THEN "bahan_bakar" ELSE energySource
        factor == OrElse(Get(emissionFactors, source), emissionFactors.bahan_bakar)
    IN  Mul(fuelConsumption, factor)

\* the emission derived from the fuel consumption as rounded for display
calculateComprehensiveEmission_EmissionOfRounded(mode, distance, scenario) ==
    LET fuelConsumption == parseFloat(toFixed(
                               calculateFuelConsumption(mode, distance, scenario), 3))
        energySource    == IF scenario.energy \in {NoValue, ""}
                           THEN "bahan_bakar" ELSE scenario.energy
        emission        == calculateEmission(fuelConsumption, energySource)
    IN  [mode            |-> mode,
         distance        |-> parseFloat(toFixed(distance, 2)),
         fuelConsumption |-> fuelConsumption,
         emission        |-> parseFloat(toFixed(emission, 3)),
         energySource    |-> energySource,
         scenario        |-> scenario]

calculateComprehensiveEmission(mode, distance, scenario) ==
    LET fuelConsumption == calculateFuelConsumption(mode, distance, scenario)
        energySource    == IF scenario.energy \in {NoValue, ""}
                           THEN "bahan_bakar" ELSE scenario.energy
        emission        == calculateEmission(fuelConsumption, energySource)
    IN  [mode            |-> mode,
         distance        |-> parseFloat(toFixed(distance, 2)),
         fuelConsumption |-> parseFloat(toFixed(fuelConsumption, 3)),
         emission        |-> parseFloat(toFixed(emission, 3)),
         energySource    |-> energySource,
         scenario        |-> scenario]

\* the mode list with bus and motor exchanged
calculateAllModes_Reordered(distance, scenario) ==
    LET modes == <<"mobil", "motor", "bus", "ka_argo", "kcic">>
    IN  [i \in 1 .. Len(modes) |->
            calculateComprehensiveEmission(modes[i], distance, scenario)]

calculateAllModes(distance, scenario) ==
    LET modes == <<"mobil", "bus", "motor", "ka_argo", "kcic">>
    IN  [i \in 1 .. Len(modes) |->
            calculateComprehensiveEmission(modes[i], distance, scenario)]

(***************************************************************************)
(* Strings whose characters the code inspects: sequences of characters     *)
(***************************************************************************)
Str(chars) == [t |-> "string", chars |-> chars]

UpperCase ==
    <<"A", "B", "C", "D", "E", "F", "G", "H", "I", "J", "K", "L", "M",
      "N", "O", "P", "Q", "R", "S", "T", "U", "V", "W", "X", "Y", "Z">>

LowerCase ==
    <<"a", "b", "c", "d", "e", "f", "g", "h", "i", "j", "k", "l", "m",
      "n", "o", "p", "q", "r", "s", "t", "u", "v", "w", "x", "y", "z">>

\* String.prototype.toLowerCase
toLowerCase(s) ==
    Str([i \in 1 .. Len(s.chars) |->
            IF \E k \in 1 .. 26 : UpperCase[k] = s.chars[i]
            THEN LowerCase[CHOOSE k \in 1 .. 26 : UpperCase[k] = s.chars[i]]
            ELSE s.chars[i]])

\* String.prototype.includes
includes(s, sub) ==
    \E i \in 1 .. (Len(s.chars) - Len(sub.chars) + 1) :
        SubSeq(s.chars, i, i + Len(sub.chars) - 1) = sub.chars

HujanRingan ==
    Str(<<"h", "u", "j", "a", "n", " ", "r", "i", "n", "g", "a", "n">>)

LightRain == Str(<<"l", "i", "g", "h", "t", " ", "r", "a", "i", "n">>)

HujanLebat == Str(<<"h", "u", "j", "a", "n", " ", "l", "e", "b", "a", "t">>)

HeavyRain == Str(<<"h", "e", "a", "v", "y", " ", "r", "a", "i", "n">>)

Hujan == Str(<<"h", "u", "j", "a", "n">>)

(***************************************************************************)
(* services/bmkgService.js: getWeatherAdjustmentFactor                     *)
(***************************************************************************)
\* weatherData.current.condition?.toLowerCase() throws a TypeError when the
\* condition is neither null/undefined nor a string
ConditionThrows(weatherData) ==
    /\ Truthy(weatherData) /\ Truthy(weatherData.current)
    /\ weatherData.current.condition.t \notin {"string", "undefined", "null"}

\* strong wind taken from 15 km/h on instead of above 15 km/h
StrongWind_AtLeast15(windSpeed) == ~Less(windSpeed, Lit(15, 0))

StrongWind(windSpeed) == Less(Lit(15, 0), windSpeed)

\* the try block of getWeatherAdjustmentFactor when nothing in it throws
TryGetWeatherAdjustmentFactor(weatherData) ==
    IF ~(Truthy(weatherData) /\ Truthy(weatherData.current)) THEN Lit(1, 0)
    ELSE LET current   == weatherData.current
             lowered   == IF current.condition.t \in {"undefined", "null"}
                          THEN Undefined ELSE toLowerCase(current.condition)
             condition == OrElse(lowered, Str(<<>>))
             f0        == Lit(1, 0)
             f1        == IF \/ includes(condition, HujanRingan)
                             \/ includes(condition, LightRain)
                          THEN Mul(f0, Lit(105, 2))
                          ELSE IF \/ includes(condition, HujanLebat)
                                  \/ includes(condition, HeavyRain)
                                  \/ includes(condition, Hujan)
                          THEN Mul(f0, Lit(11, 1))
                          ELSE f0
             temp      == OrElse(current.temperature, Lit(25, 0))
             f2        == IF Less(temp, Lit(15, 0)) \/ Less(Lit(35, 0), temp)
                          THEN Mul(f1, Lit(103, 2)) ELSE f1
             windSpeed == OrElse(current.windSpeed, Lit(0, 0))
             f3        == IF StrongWind(windSpeed)
                          THEN Mul(f2, Lit(102, 2)) ELSE f2
         IN  f3

\* the catch block logging the error without returning the fallback
getWeatherAdjustmentFactor_CatchReturnsNothing(weatherData) ==
    IF ConditionThrows(weatherData) THEN Undefined
    ELSE TryGetWeatherAdjustmentFactor(weatherData)

getWeatherAdjustmentFactor(weatherData) ==
    IF ConditionThrows(weatherData) THEN Lit(1, 0)
    ELSE TryGetWeatherAdjustmentFactor(weatherData)

\* the outcome of a call
Pending == [status |-> "pending"]

Returned(v) == [status |-> "returned", value |-> v]

(***************************************************************************)
(* App.jsx: the App component                                              *)
(***************************************************************************)
\* a transport mode as App holds it: the id the radio buttons pass, or the
\* array the check boxes pass
Id(s) == [t |-> "id", id |-> s]

List(items) == [t |-> "array", items |-> items]

\* useState({}) of scenario
EmptyScenario ==
    [traffic |-> NoValue, cuaca |-> NoValue, loadFactor |-> NoValue,
     energy |-> NoValue, tollOption |-> NoValue]

\* error === null
NoError == "null"

\* the message of the ReferenceError thrown where calculateEmissions reads
\* routeCoordinates, which App.jsx neither imports nor declares
RouteCoordinatesError == "routeCoordinates is not defined"

InitApp ==
    /\ appMode = "aktual"
    /\ route = ""
    /\ transportMode = Id("")
    /\ appScenario = EmptyScenario
    /\ calculationData = <<>>
    /\ loading = FALSE
    /\ error = NoError
    /\ appDistance = Lit(0, 0)
    /\ selectorMode = ""
    /\ selectedModes = <<>>
    /\ runs = <<>>
    /\ effectPending = FALSE
    /\ events = 0

\* retryOperation before it is called
NotRetrying ==
    [pc |-> "idle", i |-> 0, invoked |-> 0, outcomes |-> <<>>, waits |-> <<>>,
     lastError |-> Undefined]

\* the services keep no state: no invocation is under way
InitService ==
    /\ lookups = <<>> /\ awaiting = FALSE /\ retry = NotRetrying
    /\ routeRequests = <<>>

\* the user events one behaviour handles
MaxEvents == 5

\* the value of scenario.cuaca as the text getWeatherAdjustmentFactor reads
ConditionOf(cuaca) ==
    CASE cuaca = "hujan_ringan" -> Str(<<"h", "u", "j", "a", "n", "_", "r", "i", "n", "g", "a", "n">>)
      [] cuaca = "hujan_lebat"  -> Str(<<"h", "u", "j", "a", "n", "_", "l", "e", "b", "a", "t">>)
      [] cuaca = "normal"       -> Str(<<"n", "o", "r", "m", "a", "l">>)
      [] OTHER                  -> Undefined

Object(fields) == [t |-> "object"] @@ fields

\* ['ka_argo', 'kcic'].includes(transportMode)
IsTrain(tm) == tm.t = "id" /\ tm.id \in {"ka_argo", "kcic"}

\* every selected mode computed at the one distance calculateEmissions found
ResultsFor(m, tm, currentDistance, currentScenario) ==
    IF m = "aktual"
    THEN <<calculateComprehensiveEmission(tm.id, currentDistance, currentScenario)>>
    ELSE LET modes == <<"mobil", "bus", "motor", "ka_argo", "kcic">>
         IN  [i \in 1 .. Len(modes) |->
                 calculateComprehensiveEmission(modes[i], currentDistance,
                                                currentScenario)]

\* the route requested before the mode is tested, so for rail modes too
calculateEmissions_RouteForEveryMode(m, tm, sc) ==
    IF IsTrain(tm)
    THEN LET currentDistance   == OrElse(Get(staticDistances, tm.id), Lit(150, 0))
             results           == ResultsFor(m, tm, currentDistance, sc)
             weatherAdjustment == Lit(1, 0)
         IN  /\ loading' = TRUE
             /\ error' = NoError
             /\ appDistance' = currentDistance
             /\ runs' = Append(runs, [results |-> results,
                                      weatherAdjustment |-> weatherAdjustment])
             /\ routeRequests' =
                    Append(routeRequests,
                           [route |-> route,
                            avoidTolls |-> sc.tollOption = "avoid_tolls"])
             /\ UNCHANGED calculationData
    ELSE /\ loading' = FALSE
         /\ error' = RouteCoordinatesError
         /\ UNCHANGED <<calculationData, appDistance, runs, routeRequests>>

\* calculateEmissions, closed over the state (m, tm, sc) of the render that
\* ran it, from its start to its first suspension, or to its end when it throws
calculateEmissions(m, tm, sc) ==
    IF IsTrain(tm)
    THEN LET currentDistance   == OrElse(Get(staticDistances, tm.id), Lit(150, 0))
             results           == ResultsFor(m, tm, currentDistance, sc)
             weatherAdjustment ==
                 getWeatherAdjustmentFactor(Object([current |->
                     Object([condition   |-> ConditionOf(sc.cuaca),
                             temperature |-> Undefined,
                             windSpeed   |-> Undefined])]))
         IN  /\ loading' = TRUE
             /\ error' = NoError
             /\ appDistance' = currentDistance
             /\ runs' = Append(runs, [results |-> results,
                                      weatherAdjustment |-> weatherAdjustment])
             /\ UNCHANGED <<calculationData, routeRequests>>
    ELSE /\ loading' = FALSE
         /\ error' = RouteCoordinatesError
         /\ UNCHANGED <<calculationData, appDistance, runs, routeRequests>>

\* the effect on [route, transportMode, scenario, mode], run after the render
\* that changed one of them and before the next event is handled
UseEffect ==
    /\ effectPending
    /\ effectPending' = FALSE
    /\ IF route # "" /\ transportMode # Id("")
       THEN calculateEmissions(appMode, transportMode, appScenario)
       ELSE UNCHANGED <<calculationData, loading, error, appDistance, runs,
                        routeRequests>>
    /\ UNCHANGED <<appMode, route, transportMode, appScenario, selectorMode,
                   selectedModes, events, callVars, serviceVars>>

\* the finally block left out of the resumed part
ResumeCalculateEmissions_LoadingStays ==
    /\ runs # <<>>
    /\ LET run == Head(runs)
       IN  calculationData' =
               [i \in DOMAIN run.results |->
                   [run.results[i] EXCEPT
                       !.fuelConsumption = Mul(@, run.weatherAdjustment),
                       !.emission = Mul(@, run.weatherAdjustment)]]
    /\ runs' = Tail(runs)
    /\ UNCHANGED <<appMode, route, transportMode, appScenario, error, loading,
                   appDistance, selectorMode, selectedModes, effectPending,
                   events, routeRequests, callVars, serviceVars>>

\* calculateEmissions after "await getWeatherAdjustmentFactor(...)"
ResumeCalculateEmissions ==
    /\ runs # <<>>
    /\ LET run == Head(runs)
       IN  calculationData' =
               [i \in DOMAIN run.results |->
                   [run.results[i] EXCEPT
                       !.fuelConsumption = Mul(@, run.weatherAdjustment),
                       !.emission = Mul(@, run.weatherAdjustment)]]
    /\ loading' = FALSE
    /\ runs' = Tail(runs)
    /\ UNCHANGED <<appMode, route, transportMode, appScenario, error,
                   appDistance, selectorMode, selectedModes, effectPending,
                   events, routeRequests, callVars, serviceVars>>

\* an event is handled once the effect of the last render has run and the
\* invocation it suspended has resumed
Idle == runs = <<>> /\ ~effectPending /\ events < MaxEvents

\* a state update and the render it causes, which schedules the effect
Render(m, r, tm, sc) ==
    /\ Idle
    /\ events' = events + 1
    /\ <<m, r, tm, sc>> # <<appMode, route, transportMode, appScenario>>
    /\ appMode' = m /\ route' = r /\ transportMode' = tm /\ appScenario' = sc
    /\ effectPending' = TRUE
    /\ UNCHANGED <<calculationData, loading, error, appDistance, runs,
                   routeRequests, callVars, serviceVars>>

\* the choices the user makes, among those the selectors offer
RouteChoices == {"", "bandung-jakarta"}

ModeChoices == {"mobil", "ka_argo", "kcic"}

CheckBoxChoices == {"ka_argo"}

OptionChoices ==
    [cuaca |-> {"normal", "hujan_ringan", "hujan_lebat"},
     tollOption |-> {"with_tolls", "avoid_tolls"}]

\* OptionsSelector's own state: its defaults overridden by App's scenario
SelectorOptions ==
    LET defaults == [traffic |-> "normal", cuaca |-> "normal",
                     loadFactor |-> "standard", energy |-> "standard",
                     tollOption |-> "with_tolls"]
    IN  [k \in DOMAIN defaults |->
            IF appScenario[k] = NoValue THEN defaults[k] ELSE appScenario[k]]

\* the navigation buttons
SetMode ==
    \E m \in {"aktual", "prediksi"} :
        /\ Render(m, route, transportMode, appScenario)
        /\ UNCHANGED <<selectorMode, selectedModes>>

HandleRouteChange ==
    \E newRoute \in RouteChoices :
        /\ Render(appMode, newRoute, transportMode, appScenario)
        /\ UNCHANGED <<selectorMode, selectedModes>>

\* TransportModeSelector, single selection
HandleModeChange ==
    \E newMode \in ModeChoices :
        /\ appMode = "aktual"
        /\ newMode # selectorMode
        /\ selectorMode' = newMode
        /\ IF Id(newMode) = transportMode
           THEN /\ Idle
                /\ events' = events + 1
                /\ UNCHANGED <<appMode, route, transportMode, appScenario,
                               calculationData, loading, error, appDistance,
                               runs, effectPending, routeRequests, callVars,
                               serviceVars>>
           ELSE Render(appMode, route, Id(newMode), appScenario)
        /\ UNCHANGED selectedModes

\* TransportModeSelector, multiple selection
HandleMultipleModeChange ==
    \E modeId \in CheckBoxChoices :
        LET checked == \A i \in DOMAIN selectedModes : selectedModes[i] # modeId
            newSelectedModes ==
                IF checked THEN Append(selectedModes, modeId)
                ELSE SelectSeq(selectedModes, LAMBDA id : id # modeId)
        IN  /\ appMode = "prediksi"
            /\ selectedModes' = newSelectedModes
            /\ Render(appMode, route, List(newSelectedModes), appScenario)
            /\ UNCHANGED selectorMode

\* OptionsSelector, shown in 'prediksi' mode only
HandleScenarioChange ==
    \E key \in DOMAIN OptionChoices :
        \E value \in OptionChoices[key] :
            /\ appMode = "prediksi"
            /\ value # SelectorOptions[key]
            /\ Render(appMode, route, transportMode,
                      [SelectorOptions EXCEPT ![key] = value])
            /\ UNCHANGED <<selectorMode, selectedModes>>

NoCall == [fn |-> "none"]

Init == InitApp /\ InitService /\ call = NoCall /\ ret = Pending

Next ==
    \/ SetMode
    \/ HandleRouteChange
    \/ HandleModeChange
    \/ HandleMultipleModeChange
    \/ HandleScenarioChange
    \/ UseEffect
    \/ ResumeCalculateEmissions

Spec == Init /\ [][Next]_vars

\* a continuation queued by an await of a settled value runs once the stack
\* is empty
SpecLive == Spec /\ WF_vars(ResumeCalculateEmissions)

(***************************************************************************)
(* Callers of the calculation engine: one call of one exported function    *)
(* with arguments drawn from the sets below, then its return.              *)
(***************************************************************************)
\* the five modes, a mode the rate table does not have, and a mode whose
\* name is a member of Object.prototype
ModeArgs == {"mobil", "bus", "motor", "ka_argo", "kcic", "pesawat", "toString"}

\* kilometres: zero, the static rail distances, a routed distance with two
\* decimals, one with three, and negative distances
DistanceArgs ==
    {Lit(0, 0), Lit(150, 0), Lit(142, 0), Lit(14872, 2), Lit(12345, 3),
     Lit(-150, 0)}

TrafficArgs == {NoValue, "normal", "padat", "sangat_padat", "macet"}
CuacaArgs   == {NoValue, "normal", "hujan_ringan", "hujan_lebat", "badai"}
LoadArgs    == {NoValue, "standard", "peak"}
EnergyArgs  ==
    {NoValue, "bahan_bakar", "listrik_grid", "biofuel", "listrik_renewable",
     "standard", "toString"}

ScenarioArgs ==
    [traffic : TrafficArgs, cuaca : CuacaArgs, loadFactor : LoadArgs,
     energy : EnergyArgs, tollOption : {"with_tolls"}]

\* the scenarios as the adjustment functions read them (they never read energy)
AdjustmentArgs == {s \in ScenarioArgs : s.energy = NoValue}

FuelArgs ==
    {Lit(0, 0), Lit(1035, 2), Lit(4554, 3), Lit(-3, 0), NaN}

CalcCalls ==
         [fn : {"getAdjustmentFactor"}, params : AdjustmentArgs]
    \cup [fn : {"calculateFuelConsumption"}, mode : ModeArgs,
          distance : DistanceArgs, adjustments : AdjustmentArgs]
    \cup [fn : {"calculateEmission"}, fuelConsumption : FuelArgs,
          energySource : EnergyArgs]
    \cup [fn : {"calculateComprehensiveEmission"}, mode : ModeArgs,
          distance : DistanceArgs, scenario : ScenarioArgs]
    \cup [fn : {"calculateAllModes"}, distance : DistanceArgs,
          scenario : ScenarioArgs]

InitCalc == call \in CalcCalls /\ ret = Pending /\ InitApp /\ InitService

CallGetAdjustmentFactor ==
    /\ call.fn = "getAdjustmentFactor" /\ ret = Pending
    /\ ret' = Returned(getAdjustmentFactor(call.params))
    /\ UNCHANGED <<call, appVars, serviceVars, routeRequests>>

CallCalculateFuelConsumption ==
    /\ call.fn = "calculateFuelConsumption" /\ ret = Pending
    /\ ret' = Returned(calculateFuelConsumption(call.mode, call.distance,
                                                call.adjustments))
    /\ UNCHANGED <<call, appVars, serviceVars, routeRequests>>

CallCalculateEmission ==
    /\ call.fn = "calculateEmission" /\ ret = Pending
    /\ ret' = Returned(calculateEmission(call.fuelConsumption, call.energySource))
    /\ UNCHANGED <<call, appVars, serviceVars, routeRequests>>

CallCalculateComprehensiveEmission ==
    /\ call.fn = "calculateComprehensiveEmission" /\ ret = Pending
    /\ ret' = Returned(calculateComprehensiveEmission(call.mode, call.distance,
                                                      call.scenario))
    /\ UNCHANGED <<call, appVars, serviceVars, routeRequests>>

CallCalculateAllModes ==
    /\ call.fn = "calculateAllModes" /\ ret = Pending
    /\ ret' = Returned(calculateAllModes(call.distance, call.scenario))
    /\ UNCHANGED <<call, appVars, serviceVars, routeRequests>>

NextCalc ==
    \/ CallGetAdjustmentFactor
    \/ CallCalculateFuelConsumption
    \/ CallCalculateEmission
    \/ CallCalculateComprehensiveEmission
    \/ CallCalculateAllModes

SpecCalc == InitCalc /\ [][NextCalc]_vars

(***************************************************************************)
(* A caller of getWeatherAdjustmentFactor: one call with a weather record  *)
(* drawn from the sets below, then its return.                             *)
(***************************************************************************)
CondHeavyRain == Str(<<"h", "e", "a", "v", "y", " ", "r", "a", "i", "n">>)

CondHeavyRainCaps == Str(<<"H", "e", "a", "v", "y", " ", "R", "a", "i", "n">>)

CondLightRain == Str(<<"l", "i", "g", "h", "t", " ", "r", "a", "i", "n">>)

CondHujanRinganCaps ==
    Str(<<"H", "u", "j", "a", "n", " ", "R", "i", "n", "g", "a", "n">>)

CondHujanLebat ==
    Str(<<"h", "u", "j", "a", "n", " ", "l", "e", "b", "a", "t">>)

CondHujanPetir ==
    Str(<<"H", "u", "j", "a", "n", " ", "P", "e", "t", "i", "r">>)

CondRain == Str(<<"r", "a", "i", "n">>)

CondCerah == Str(<<"c", "e", "r", "a", "h">>)

CondEmpty == Str(<<>>)

CondScenarioRingan ==
    Str(<<"h", "u", "j", "a", "n", "_", "r", "i", "n", "g", "a", "n">>)

CondScenarioLebat ==
    Str(<<"h", "u", "j", "a", "n", "_", "l", "e", "b", "a", "t">>)

CondScenarioNormal == Str(<<"n", "o", "r", "m", "a", "l">>)

\* condition texts of the weather provider and of the mock generator, the
\* scenario selector's values, no condition, and a condition that is no text
ConditionArgs ==
    {CondHeavyRain, CondHeavyRainCaps, CondLightRain, CondHujanRinganCaps,
     CondHujanLebat, CondHujanPetir, CondRain, CondCerah, CondEmpty,
     CondScenarioRingan, CondScenarioLebat, CondScenarioNormal,
     Undefined, Null, Lit(3, 0)}

TemperatureArgs ==
    {Undefined, Lit(-5, 0), Lit(0, 0), Lit(149, 1), Lit(15, 0), Lit(25, 0),
     Lit(35, 0), Lit(351, 1), Lit(40, 0)}

WindSpeedArgs ==
    {Undefined, Lit(0, 0), Lit(5, 0), Lit(15, 0), Lit(151, 1), Lit(20, 0)}

WeatherDataArgs ==
    {Undefined, Null, Object([current |-> Undefined]), Object([current |-> Null])}
    \cup {Object([current |-> Object([condition |-> c, temperature |-> tp,
                                      windSpeed |-> w])]) :
            c \in ConditionArgs, tp \in TemperatureArgs, w \in WindSpeedArgs}

WeatherCalls == [fn : {"getWeatherAdjustmentFactor"}, weatherData : WeatherDataArgs]

InitWeather ==
    call \in WeatherCalls /\ ret = Pending /\ InitApp /\ InitService

CallGetWeatherAdjustmentFactor ==
    /\ call.fn = "getWeatherAdjustmentFactor" /\ ret = Pending
    /\ ret' = Returned(getWeatherAdjustmentFactor(call.weatherData))
    /\ UNCHANGED <<call, appVars, serviceVars, routeRequests>>

NextWeather == CallGetWeatherAdjustmentFactor

SpecWeather == InitWeather /\ [][NextWeather]_vars

(***************************************************************************)
(* services/directionsService.js: estimateRouteAdjustments                 *)
(***************************************************************************)
\* a / b, kept as the pair of its operands
Div(a, b) == [t |-> "quotient", num |-> ToNumber(a), den |-> ToNumber(b)]

\* the quotient is NaN: an operand is NaN, or it is 0 / 0
QuotientNaN(q) ==
    q.num.nan \/ q.den.nan \/ (q.num.mant = <<>> /\ q.den.mant = <<>>)

\* q <= c for a quotient q and a number c
QuotientLess_OrEqual(q, c) ==
    IF QuotientNaN(q) THEN FALSE
    ELSE IF q.den.mant = <<>> THEN q.num.neg
    ELSE IF q.den.neg THEN ~Less(q.num, Mul(c, q.den))
    ELSE ~Less(Mul(c, q.den), q.num)

\* q < c for a quotient q and a number c; x / 0 is +Infinity or -Infinity
QuotientLess(q, c) ==
    IF QuotientNaN(q) THEN FALSE
    ELSE IF q.den.mant = <<>> THEN q.num.neg
    ELSE IF q.den.neg THEN Less(Mul(c, q.den), q.num)
    ELSE Less(q.num, Mul(c, q.den))

\* q > c
QuotientGreater(q, c) ==
    IF QuotientNaN(q) THEN FALSE
    ELSE IF q.den.mant = <<>> THEN ~q.num.neg
    ELSE IF q.den.neg THEN Less(q.num, Mul(c, q.den))
    ELSE Less(Mul(c, q.den), q.num)

Traffic == Str(<<"t", "r", "a", "f", "f", "i", "c">>)

Congestion == Str(<<"c", "o", "n", "g", "e", "s", "t", "i", "o", "n">>)

\* reading routeData throws a TypeError: it is no object, its warnings are no
\* list of texts, or it has no distance or no duration
RouteDataThrows(routeData) ==
    \/ routeData.t # "object"
    \/ /\ Truthy(routeData.warnings)
       /\ \/ routeData.warnings.t # "array"
          \/ \E i \in DOMAIN routeData.warnings.items :
                routeData.warnings.items[i].t # "string"
    \/ routeData.distance.t # "object"
    \/ routeData.duration.t # "object"

estimateRouteAdjustments(routeData, mode) ==
    IF RouteDataThrows(routeData)
    THEN [traffic |-> Lit(1, 0), terrain |-> Lit(1, 0), urban |-> Lit(1, 0)]
    ELSE LET hasTrafficWarning ==
                 /\ Truthy(routeData.warnings)
                 /\ \E i \in DOMAIN routeData.warnings.items :
                       LET warning == routeData.warnings.items[i]
                       IN  \/ includes(toLowerCase(warning), Traffic)
                           \/ includes(toLowerCase(warning), Congestion)
             avgSpeed == Div(routeData.distance.km, routeData.duration.hours)
         IN  [traffic |-> IF hasTrafficWarning THEN Lit(11, 1) ELSE Lit(1, 0),
              terrain |-> Lit(1, 0),
              urban   |-> IF QuotientLess(avgSpeed, Lit(30, 0)) THEN Lit(115, 2)
                          ELSE IF QuotientGreater(avgSpeed, Lit(80, 0))
                          THEN Lit(95, 2)
                          ELSE Lit(1, 0)]

(***************************************************************************)
(* utils/errorHandler.js and services/bmkgService.js: getCurrentWeather    *)
(* and getRouteWeatherData.  The timestamps, wind direction, cloud cover,  *)
(* visibility and raw payload of a weather record are left out; the        *)
(* temperatures and humidities are whole numbers, as the provider and the  *)
(* mock generator give them.                                               *)
(***************************************************************************)
\* an Error, or an AxiosError with its code
Error(code, message) == [t |-> "error", code |-> code, message |-> message]

ParameterTidakLengkap ==
    Str(<<"P", "a", "r", "a", "m", "e", "t", "e", "r", " ", "y", "a", "n",
          "g", " ", "d", "i", "p", "e", "r", "l", "u", "k", "a", "n", " ",
          "t", "i", "d", "a", "k", " ", "l", "e", "n", "g", "k", "a", "p",
          ":", " ">>)

\* validateParams over parameters whose values are texts; the names of the
\* missing parameters stay whole at the end of the message
validateParams(params, required) ==
    LET missing == SelectSeq(required, LAMBDA param : params[param] = "")
    IN  IF Len(missing) > 0
        THEN [valid   |-> FALSE,
              error   |-> Str(ParameterTidakLengkap.chars \o missing),
              missing |-> missing]
        ELSE [valid |-> TRUE]

UnknownError ==
    Str(<<"U", "n", "k", "n", "o", "w", "n", " ", "e", "r", "r", "o", "r">>)

handleError(err, customMessage) ==
    [success |-> FALSE, error |-> customMessage,
     details |-> OrElse(err.message, UnknownError)]

handleNetworkError(err, context) ==
    [success |-> FALSE,
     error   |-> context \o " failed: Periksa koneksi internet Anda",
     type    |-> "network"]

Timeout == Str(<<"t", "i", "m", "e", "o", "u", "t">>)

Rain == Str(<<"r", "a", "i", "n">>)

Normal == Str(<<"n", "o", "r", "m", "a", "l">>)

Cerah == Str(<<"c", "e", "r", "a", "h">>)

Berawan == Str(<<"b", "e", "r", "a", "w", "a", "n">>)

Clear == Str(<<"c", "l", "e", "a", "r">>)

Cloudy == Str(<<"c", "l", "o", "u", "d", "y">>)

\* the values Math.random can lead getMockWeatherData to: every condition,
\* and the ends of the ranges of the numbers
MockTemperatures == {Lit(22, 0), Lit(30, 0)}

MockHumidities == {Lit(60, 0), Lit(90, 0)}

MockWindSpeeds == {Lit(3, 0), Lit(10, 0)}

getMockWeatherData ==
    {Object([current |->
                Object([temperature |-> temperature,
                        humidity    |-> humidity,
                        condition   |-> condition,
                        conditionEn |->
                            IF condition = Cerah THEN Clear
                            ELSE IF condition = Berawan THEN Cloudy
                            ELSE IF condition = HujanRingan THEN LightRain
                            ELSE Normal,
                        windSpeed   |-> windSpeed]),
             isMock |-> TRUE]) :
        condition \in {Cerah, Berawan, HujanRingan, Normal},
        temperature \in MockTemperatures,
        humidity \in MockHumidities,
        windSpeed \in MockWindSpeeds}

\* an observation without any field
NoObservation ==
    Object([tp |-> Undefined, hu |-> Undefined, weather_desc |-> Undefined,
            weather_desc_en |-> Undefined, ws |-> Undefined])

\* processWeatherData of a payload whose 'data' is a list of observations
\* (tp is the observation's field t)
processWeatherData(rawData) ==
    LET weatherArray == rawData.data
        current      == IF weatherArray # <<>> THEN weatherArray[1]
                        ELSE NoObservation
    IN  Object([current |->
            Object([temperature |-> OrElse(ToNumber(current.tp), Lit(25, 0)),
                    humidity    |-> OrElse(ToNumber(current.hu), Lit(70, 0)),
                    condition   |-> OrElse(current.weather_desc,
                                       OrElse(current.weather_desc_en, Normal)),
                    conditionEn |-> OrElse(current.weather_desc_en, Normal),
                    windSpeed   |-> OrElse(ToNumber(current.ws), Lit(5, 0))])])

\* the catch block of getCurrentWeather
CatchGetCurrentWeather(err, mock) ==
    IF err.code = "ECONNABORTED" \/ includes(err.message, Timeout)
    THEN handleNetworkError(err, "BMKG API request")
    ELSE [success |-> TRUE, data |-> mock, isMock |-> TRUE]

DataCuacaTidakDitemukan ==
    Str(<<"D", "a", "t", "a", " ", "c", "u", "a", "c", "a", " ", "t", "i",
          "d", "a", "k", " ", "d", "i", "t", "e", "m", "u", "k", "a", "n">>)

CannotReadProperties ==
    Str(<<"C", "a", "n", "n", "o", "t", " ", "r", "e", "a", "d", " ", "p",
          "r", "o", "p", "e", "r", "t", "i", "e", "s", " ", "o", "f", " ",
          "n", "u", "l", "l", " ", "(", "r", "e", "a", "d", "i", "n", "g",
          " ", "'", "e", "r", "r", "o", "r", "'", ")">>)

\* no response received (yet)
NoResponse == [t |-> "none"]

\* getCurrentWeather up to "await axios.get(...)": the invocation is left
\* requesting, or has ended in the catch block
StartGetCurrentWeather(regionCode, mock) ==
    LET validation == validateParams([regionCode |-> regionCode],
                                     <<"regionCode">>)
    IN  IF ~validation.valid
        THEN [regionCode |-> regionCode, status |-> "fulfilled",
              received |-> NoResponse,
              value |-> CatchGetCurrentWeather(Error(NoValue, validation.error),
                                               mock)]
        ELSE [regionCode |-> regionCode, status |-> "requesting",
              received |-> NoResponse]

\* getCurrentWeather from the settling of axios.get to its return
ResumeGetCurrentWeather(received, mock) ==
    IF received.t = "error" THEN CatchGetCurrentWeather(received, mock)
    ELSE IF received.data.t = "null"
    THEN CatchGetCurrentWeather(Error(NoValue, CannotReadProperties), mock)
    ELSE IF received.data.error \/ received.data.statusCode = 404
    THEN CatchGetCurrentWeather(
             Error(NoValue, OrElse(received.data.message,
                                   DataCuacaTidakDitemukan)), mock)
    ELSE [success |-> TRUE, data |-> processWeatherData(received.data)]

getRegionName(regionCode) ==
    CASE regionCode = "31.71" -> "Jakarta Pusat"
      [] regionCode = "31.72" -> "Jakarta Utara"
      [] regionCode = "31.73" -> "Jakarta Barat"
      [] regionCode = "31.74" -> "Jakarta Selatan"
      [] regionCode = "31.75" -> "Jakarta Timur"
      [] regionCode = "32.73" -> "Bandung"
      [] regionCode = "32.77" -> "Cimahi"
      [] regionCode = "32.71" -> "Bogor"
      [] regionCode = "32.76" -> "Depok"
      [] OTHER                -> "Region " \o regionCode

\* the value of a whole number
RECURSIVE BigToNat(_)
BigToNat(b) == IF b = <<>> THEN 0 ELSE b[1] + Base * BigToNat(Tail(b))

RECURSIVE Sum(_)
Sum(s) == IF s = <<>> THEN 0 ELSE Head(s) + Sum(Tail(s))

\* Math.round(total / count) of whole numbers total >= 0 and count > 0
RoundedAverage(total, count) == Lit((2 * total + count) \div (2 * count), 0)

\* the keys of conditionCounts, in the order of their insertion
RECURSIVE Keys(_)
Keys(conditions) ==
    IF conditions = <<>> THEN <<>>
    ELSE LET front == Keys(SubSeq(conditions, 1, Len(conditions) - 1))
             last  == conditions[Len(conditions)]
         IN  IF \E i \in DOMAIN front : front[i] = last
             THEN front ELSE Append(front, last)

\* Object.keys(conditionCounts).reduce((a, b) => counts[a] > counts[b] ? a : b)
RECURSIVE Dominant(_, _)
Dominant(keys, conditions) ==
    LET count(c) == Cardinality({i \in DOMAIN conditions : conditions[i] = c})
    IN  IF Len(keys) = 1 THEN keys[1]
        ELSE LET a == Dominant(SubSeq(keys, 1, Len(keys) - 1), conditions)
                 b == keys[Len(keys)]
             IN  IF count(a) > count(b) THEN a ELSE b

\* the aggregate getRouteWeatherData builds from the settled lookups
RouteWeather(regions, results) ==
    LET index      == [i \in DOMAIN results |-> i]
        succeeded  == SelectSeq(index, LAMBDA i : results[i].value.success)
        weatherOf(k) == results[succeeded[k]].value.data
        valid      == SelectSeq([k \in DOMAIN succeeded |-> k],
                                LAMBDA k : Truthy(weatherOf(k).current))
        temps      == [v \in DOMAIN valid |->
                          BigToNat(OrElse(weatherOf(valid[v]).current.temperature,
                                          Lit(25, 0)).mant)]
        humidities == [v \in DOMAIN valid |->
                          BigToNat(OrElse(weatherOf(valid[v]).current.humidity,
                                          Lit(70, 0)).mant)]
        conditions == [v \in DOMAIN valid |->
                          OrElse(weatherOf(valid[v]).current.condition, Normal)]
        hasRain    == \E v \in DOMAIN valid :
                          LET condition == weatherOf(valid[v]).current.condition
                          IN  /\ Truthy(condition)
                              /\ \/ includes(condition, Hujan)
                                 \/ includes(condition, Rain)
    IN  [regions |->
            [k \in DOMAIN succeeded |->
                [regionCode |-> regions[succeeded[k]],
                 regionName |-> getRegionName(regions[succeeded[k]]),
                 weather    |-> weatherOf(k)]],
         summary |->
            [averageTemp       |-> IF Len(valid) > 0
                                   THEN RoundedAverage(Sum(temps), Len(valid))
                                   ELSE Lit(0, 0),
             averageHumidity   |-> IF Len(valid) > 0
                                   THEN RoundedAverage(Sum(humidities), Len(valid))
                                   ELSE Lit(0, 0),
             dominantCondition |-> IF Len(valid) > 0
                                   THEN Dominant(Keys(conditions), conditions)
                                   ELSE Normal,
             hasRain           |-> hasRain]]

(***************************************************************************)
(* Callers of bmkgService.js and the weather provider                      *)
(***************************************************************************)
\* observations of the provider: a full one, and one with temperature 0 and
\* an English description only
ObservationRain ==
    Object([tp |-> Lit(27, 0), hu |-> Lit(80, 0),
            weather_desc |-> CondHujanRinganCaps,
            weather_desc_en |-> CondLightRain, ws |-> Lit(12, 0)])

ObservationCold ==
    Object([tp |-> Lit(0, 0), hu |-> Undefined, weather_desc |-> Undefined,
            weather_desc_en |-> CondHeavyRainCaps, ws |-> Undefined])

Payload(err, statusCode, message, data) ==
    Object([error |-> err, statusCode |-> statusCode, message |-> message,
            data |-> data])

GatewayTimeout ==
    Str(<<"g", "a", "t", "e", "w", "a", "y", " ", "t", "i", "m", "e", "o",
          "u", "t">>)

TimeoutExceeded ==
    Str(<<"t", "i", "m", "e", "o", "u", "t", " ", "o", "f", " ", "1", "0",
          "0", "0", "0", "m", "s", " ", "e", "x", "c", "e", "e", "d", "e",
          "d">>)

NetworkError ==
    Str(<<"N", "e", "t", "w", "o", "r", "k", " ", "E", "r", "r", "o", "r">>)

RequestFailed ==
    Str(<<"R", "e", "q", "u", "e", "s", "t", " ", "f", "a", "i", "l", "e",
          "d", " ", "w", "i", "t", "h", " ", "s", "t", "a", "t", "u", "s",
          " ", "c", "o", "d", "e", " ", "5", "0", "0">>)

\* what axios.get settles with: a response with a payload, or an error
Responses ==
    {[t |-> "response", data |-> data] :
        data \in {Payload(FALSE, 200, Undefined, <<ObservationRain>>),
                  Payload(FALSE, 200, Undefined, <<ObservationCold>>),
                  Payload(FALSE, 200, Undefined, <<>>),
                  Payload(TRUE, 500, Undefined, <<>>),
                  Payload(TRUE, 504, GatewayTimeout, <<>>),
                  Payload(FALSE, 404, Undefined, <<>>),
                  Null}}
    \cup {Error("ECONNABORTED", TimeoutExceeded),
          Error("ERR_NETWORK", NetworkError),
          Error("ERR_BAD_RESPONSE", RequestFailed)}

RegionCodeArgs == {"", "32.73"}

RegionsArgs ==
    {List(<<>>), List(<<"32.73">>), List(<<"32.73", "31.71">>),
     List(<<"", "99.99">>), Undefined}

MapIsNotAFunction ==
    Str(<<"r", "e", "g", "i", "o", "n", "s", ".", "m", "a", "p", " ", "i",
          "s", " ", "n", "o", "t", " ", "a", " ", "f", "u", "n", "c", "t",
          "i", "o", "n">>)

ServiceCalls ==
    [fn : {"getCurrentWeather"}, regionCode : RegionCodeArgs]
    \cup [fn : {"getRouteWeatherData"}, regions : RegionsArgs]

InitBmkg == call \in ServiceCalls /\ ret = Pending /\ InitApp /\ InitService

CallGetCurrentWeather ==
    /\ call.fn = "getCurrentWeather" /\ ret = Pending /\ lookups = <<>>
    /\ \E mock \in getMockWeatherData :
          LET lookup == StartGetCurrentWeather(call.regionCode, mock)
          IN  /\ lookups' = <<lookup>>
              /\ ret' = IF lookup.status = "fulfilled"
                        THEN Returned(lookup.value) ELSE ret
    /\ UNCHANGED <<call, awaiting, retry, appVars, routeRequests>>

\* getRouteWeatherData up to "await Promise.allSettled(weatherPromises)", or
\* to its end when regions.map throws
CallGetRouteWeatherData ==
    /\ call.fn = "getRouteWeatherData" /\ ret = Pending
    /\ lookups = <<>> /\ ~awaiting
    /\ IF call.regions.t # "array"
       THEN /\ ret' = Returned(handleError(Error(NoValue, MapIsNotAFunction),
                                           "Gagal mengambil data cuaca rute"))
            /\ UNCHANGED <<lookups, awaiting>>
       ELSE \E mocks \in [DOMAIN call.regions.items -> getMockWeatherData] :
               /\ lookups' = [i \in DOMAIN call.regions.items |->
                                 StartGetCurrentWeather(call.regions.items[i],
                                                        mocks[i])]
               /\ awaiting' = TRUE
               /\ UNCHANGED ret
    /\ UNCHANGED <<call, retry, appVars, routeRequests>>

\* the request of one invocation settles and the invocation runs to its end;
\* the requests under way settle in any order
AxiosSettles ==
    \E i \in DOMAIN lookups, received \in Responses,
       mock \in getMockWeatherData :
        /\ lookups[i].status = "requesting"
        /\ LET value == ResumeGetCurrentWeather(received, mock)
           IN  /\ lookups' = [lookups EXCEPT ![i] =
                                 [regionCode |-> @.regionCode,
                                  status     |-> "fulfilled",
                                  received   |-> received,
                                  value      |-> value]]
               /\ ret' = IF call.fn = "getCurrentWeather"
                         THEN Returned(value) ELSE ret
        /\ UNCHANGED <<call, awaiting, retry, appVars, routeRequests>>

\* getRouteWeatherData after its await
ResumeGetRouteWeatherData ==
    /\ awaiting
    /\ \A i \in DOMAIN lookups : lookups[i].status = "fulfilled"
    /\ ret' = Returned([success |-> TRUE,
                        data |-> RouteWeather(call.regions.items, lookups)])
    /\ awaiting' = FALSE
    /\ UNCHANGED <<call, lookups, retry, appVars, routeRequests>>

NextBmkg ==
    \/ CallGetCurrentWeather
    \/ CallGetRouteWeatherData
    \/ AxiosSettles
    \/ ResumeGetRouteWeatherData

SpecBmkg == InitBmkg /\ [][NextBmkg]_vars

(***************************************************************************)
(* Callers of estimateRouteAdjustments                                     *)
(***************************************************************************)
WarningTraffic ==
    Str(<<"H", "e", "a", "v", "y", " ", "T", "r", "a", "f", "f", "i", "c",
          " ", "o", "n", " ", "t", "h", "i", "s", " ", "r", "o", "u", "t",
          "e">>)

WarningCongestion ==
    Str(<<"C", "O", "N", "G", "E", "S", "T", "I", "O", "N", " ", "c", "h",
          "a", "r", "g", "e", " ", "z", "o", "n", "e">>)

WarningToll ==
    Str(<<"T", "h", "i", "s", " ", "r", "o", "u", "t", "e", " ", "h", "a",
          "s", " ", "t", "o", "l", "l", "s">>)

WarningClosed ==
    Str(<<"R", "o", "a", "d", " ", "c", "l", "o", "s", "e", "d", " ", "a",
          "h", "e", "a", "d">>)

\* the warnings of a route: none, some without and some with a traffic or
\* congestion warning, and a list that is not of texts
QuietWarningsArgs ==
    {Undefined, List(<<>>), List(<<WarningToll>>),
     List(<<WarningToll, WarningClosed>>)}

BusyWarningsArgs ==
    {List(<<WarningTraffic>>), List(<<WarningToll, WarningCongestion>>),
     List(<<WarningCongestion, WarningClosed>>)}

\* distances and durations in hundredths, as getRouteData rounds them
KmArgs == {0, 1499, 1500, 4000, 4001, 7500, 8000, 8001, 20000, 20025}

HoursArgs == {0, 50, 100, 250}

RouteDataArgs ==
    {Object([warnings |-> w,
             distance |-> Object([km |-> Lit(km, 2)]),
             duration |-> Object([hours |-> Lit(hours, 2)])]) :
        w \in QuietWarningsArgs \cup BusyWarningsArgs,
        km \in KmArgs, hours \in HoursArgs}
    \cup {Undefined,
          Object([warnings |-> List(<<WarningTraffic>>),
                  distance |-> Undefined,
                  duration |-> Object([hours |-> Lit(100, 2)])]),
          Object([warnings |-> List(<<Lit(3, 0)>>),
                  distance |-> Object([km |-> Lit(1000, 2)]),
                  duration |-> Object([hours |-> Lit(100, 2)])])}

RouteCalls ==
    [fn : {"estimateRouteAdjustments"}, routeData : RouteDataArgs,
     mode : {"mobil", "bus", "kcic"}]

InitRoute == call \in RouteCalls /\ ret = Pending /\ InitApp /\ InitService

CallEstimateRouteAdjustments ==
    /\ call.fn = "estimateRouteAdjustments" /\ ret = Pending
    /\ ret' = Returned(estimateRouteAdjustments(call.routeData, call.mode))
    /\ UNCHANGED <<call, appVars, serviceVars, routeRequests>>

NextRoute == CallEstimateRouteAdjustments

SpecRoute == InitRoute /\ [][NextRoute]_vars

(***************************************************************************)
(* Properties of the calculation engine (checked under SpecCalc)           *)
(***************************************************************************)
IsReturned(fn) == call.fn = fn /\ ret.status = "returned"

NonNegative(x) == ~x.nan /\ ~x.neg

KnownModes == {"mobil", "bus", "motor", "ka_argo", "kcic"}

\* C1: with scenario energy 'listrik_renewable', calculateComprehensiveEmission
\* returns emission 0 for every mode, distance >= 0 and traffic/weather/load.
C1_RenewableEmissionIsZero ==
    (/\ IsReturned("calculateComprehensiveEmission")
     /\ NonNegative(call.distance)
     /\ call.scenario.energy = "listrik_renewable")
    => ret.value.emission = Lit(0, 0)

\* the rate, multiplier and emission-factor tables as the specification
\* states them, in thousandths, tenths/hundredths and hundredths
StatedRate(mode) ==
    CASE mode = "mobil"   -> 69
      [] mode = "bus"     -> 91
      [] mode = "motor"   -> 20
      [] mode = "ka_argo" -> 50
      [] mode = "kcic"    -> 36

StatedTrafficMul(v) ==
    CASE v = "padat" -> 11 [] v = "sangat_padat" -> 12 [] OTHER -> 10

StatedWeatherMul(v) ==
    CASE v = "hujan_ringan" -> 105 [] v = "hujan_lebat" -> 110 [] OTHER -> 100

StatedLoadMul(v) == IF v = "peak" THEN 115 ELSE 100

\* trafficMul * weatherMul * loadMul, a number with five decimals
StatedFactor(s) ==
    Lit(StatedTrafficMul(s.traffic) * StatedWeatherMul(s.cuaca)
        * StatedLoadMul(s.loadFactor), 5)

StatedEmissionFactor(energy) ==
    CASE energy = "listrik_grid"      -> Lit(85, 2)
      [] energy = "biofuel"           -> Lit(5, 1)
      [] energy = "listrik_renewable" -> Lit(0, 0)
      [] OTHER                        -> Lit(26, 1)

\* the energy sources of the data model; an absent one means fossil fuel
StatedEnergySources ==
    {NoValue, "bahan_bakar", "listrik_grid", "biofuel", "listrik_renewable"}

Round3(x) == parseFloat(toFixed(x, 3))

StatedFuel(mode, distance, s) ==
    Mul(Mul(Lit(StatedRate(mode), 3), distance), StatedFactor(s))

DefaultScenario ==
    [traffic |-> "normal", cuaca |-> "normal", loadFactor |-> "standard",
     energy |-> "bahan_bakar", tollOption |-> "with_tolls"]

WorstScenario ==
    [traffic |-> "sangat_padat", cuaca |-> "hujan_lebat", loadFactor |-> "peak",
     energy |-> "bahan_bakar", tollOption |-> "with_tolls"]

\* C2: for every known mode, distance >= 0 and scenario,
\* fuelConsumption = baseRate[mode] * distance * adjustmentFactor(scenario) and
\* emission = fuelConsumption * emissionFactor[energy], each rounded to three
\* decimals; car/150/default gives 10.35 and 26.91, motorcycle/150/worst case
\* gives 4.554 and 11.840.
C2_ResultIsRateTimesDistanceTimesFactor ==
    (/\ IsReturned("calculateComprehensiveEmission")
     /\ call.mode \in KnownModes
     /\ NonNegative(call.distance)
     /\ call.scenario.energy \in StatedEnergySources)
    => /\ ret.value.fuelConsumption
            = Round3(StatedFuel(call.mode, call.distance, call.scenario))
       /\ ret.value.emission
            = Round3(Mul(StatedFuel(call.mode, call.distance, call.scenario),
                         StatedEmissionFactor(call.scenario.energy)))
       /\ (call.mode = "mobil" /\ call.distance = Lit(150, 0)
           /\ call.scenario = DefaultScenario)
          => /\ ret.value.fuelConsumption = Lit(1035, 2)
             /\ ret.value.emission = Lit(2691, 2)
       /\ (call.mode = "motor" /\ call.distance = Lit(150, 0)
           /\ call.scenario = WorstScenario)
          => /\ ret.value.fuelConsumption = Lit(4554, 3)
             /\ ret.value.emission = Lit(11840, 3)

\* C3: calculateAllModes returns exactly 5 results in the order mobil, bus,
\* motor, ka_argo, kcic, the i-th being calculateComprehensiveEmission of the
\* i-th mode with the same distance and scenario.
C3_AllModesFixedOrder ==
    IsReturned("calculateAllModes")
    => LET order == <<"mobil", "bus", "motor", "ka_argo", "kcic">>
       IN  /\ DOMAIN ret.value = 1 .. 5
           /\ \A i \in 1 .. 5 :
                /\ ret.value[i].mode = order[i]
                /\ ret.value[i] = calculateComprehensiveEmission(
                                      order[i], call.distance, call.scenario)

C3_Witness ==
    /\ IsReturned("calculateAllModes")
    /\ call.distance = Lit(14872, 2)
    /\ call.scenario.traffic = "padat"
    /\ ret.value[3].fuelConsumption = Lit(3272, 3)

\* C4: for every mode, known or unknown, every distance >= 0 and every
\* scenario, fuelConsumption and emission are both >= 0.
C4_ResultsNonNegative ==
    (/\ IsReturned("calculateComprehensiveEmission")
     /\ NonNegative(call.distance)
     /\ call.scenario.energy \in StatedEnergySources)
    => /\ NonNegative(ret.value.fuelConsumption)
       /\ NonNegative(ret.value.emission)

HasNegativeDistance ==
    /\ call.fn \in {"calculateFuelConsumption", "calculateComprehensiveEmission",
                    "calculateAllModes"}
    /\ call.distance.neg

\* C5: a call of the fuel-consumption calculator, calculateComprehensiveEmission
\* or calculateAllModes with a negative distance fails with InvalidInput; it
\* never returns a result.
C5_NegativeDistanceRejected ==
    (HasNegativeDistance /\ ret # Pending) => ret.status = "InvalidInput"

TrafficRank == [normal |-> 0, padat |-> 1, sangat_padat |-> 2]

CuacaRank == [normal |-> 0, hujan_ringan |-> 1, hujan_lebat |-> 2]

LoadRank == [standard |-> 0, peak |-> 1]

\* q is p with one axis set to a value of at most p's stress on that axis
NoMoreStress(q, p) ==
    \/ /\ q.cuaca = p.cuaca /\ q.loadFactor = p.loadFactor
       /\ q.traffic \in DOMAIN TrafficRank /\ p.traffic \in DOMAIN TrafficRank
       /\ TrafficRank[q.traffic] <= TrafficRank[p.traffic]
    \/ /\ q.traffic = p.traffic /\ q.loadFactor = p.loadFactor
       /\ q.cuaca \in DOMAIN CuacaRank /\ p.cuaca \in DOMAIN CuacaRank
       /\ CuacaRank[q.cuaca] <= CuacaRank[p.cuaca]
    \/ /\ q.traffic = p.traffic /\ q.cuaca = p.cuaca
       /\ q.loadFactor \in DOMAIN LoadRank /\ p.loadFactor \in DOMAIN LoadRank
       /\ LoadRank[q.loadFactor] <= LoadRank[p.loadFactor]

\* C7: getAdjustmentFactor is non-decreasing in the stress level of each axis
\* with the other axes fixed, and is exactly 1.0 with every axis at default.
C7_FactorMonotone ==
    IsReturned("getAdjustmentFactor")
    => /\ \A q \in AdjustmentArgs :
            NoMoreStress(q, call.params)
            => ~Less(ret.value, getAdjustmentFactor(q))
       /\ (/\ call.params.traffic = "normal" /\ call.params.cuaca = "normal"
           /\ call.params.loadFactor = "standard")
          => ret.value = Lit(1, 0)

C7_Witness ==
    /\ IsReturned("getAdjustmentFactor")
    /\ call.params.traffic = "sangat_padat"
    /\ call.params.cuaca = "hujan_ringan"
    /\ call.params.loadFactor = "standard"
    /\ ret.value = Lit(126, 2)

\* C8: getAdjustmentFactor returns exactly trafficMul * weatherMul * loadMul
\* with 1.10 / 1.20 for padat / sangat_padat, 1.05 / 1.10 for hujan_ringan /
\* hujan_lebat, 1.15 for peak, and 1.0 for any other, missing or unrecognized
\* value of an axis.
C8_FactorIsProductOfAxisMultipliers ==
    IsReturned("getAdjustmentFactor") => ret.value = StatedFactor(call.params)

C8_Witness ==
    /\ IsReturned("getAdjustmentFactor")
    /\ call.params.traffic = "macet"
    /\ call.params.cuaca = NoValue
    /\ call.params.loadFactor = "peak"
    /\ ret.value = Lit(115, 2)

\* the fuel consumption before rounding, as the specification states it; an
\* unknown mode has rate 0
StatedUnroundedFuel(mode, distance, s) ==
    IF mode \in KnownModes THEN StatedFuel(mode, distance, s) ELSE Lit(0, 0)

\* C16: calculateComprehensiveEmission rounds exactly once, at its outputs:
\* distance to 2 decimals, fuelConsumption and emission to 3 decimals, and
\* emission is derived from the unrounded fuel consumption, not from the
\* rounded fuelConsumption field.
C16_RoundedOnceAtTheOutputs ==
    (/\ IsReturned("calculateComprehensiveEmission")
     /\ call.mode \in KnownModes \cup {"pesawat"}
     /\ NonNegative(call.distance)
     /\ call.scenario.energy # "toString")
    => LET fuel == StatedUnroundedFuel(call.mode, call.distance, call.scenario)
       IN  /\ ret.value.distance = parseFloat(toFixed(call.distance, 2))
           /\ ret.value.fuelConsumption = Round3(fuel)
           /\ \E factor \in {Lit(26, 1), Lit(85, 2), Lit(5, 1), Lit(0, 0)} :
                 ret.value.emission = Round3(Mul(fuel, factor))

C16_Witness ==
    /\ IsReturned("calculateComprehensiveEmission")
    /\ call.mode = "mobil"
    /\ call.distance = Lit(14872, 2)
    /\ call.scenario = DefaultScenario
    /\ ret.value.fuelConsumption = Lit(10262, 3)
    /\ ret.value.emission = Lit(26680, 3)

\* C17: for a mode that is not one of the five known modes,
\* calculateFuelConsumption uses base rate 0 and returns 0 for every distance
\* and scenario without raising an error, and calculateComprehensiveEmission
\* returns fuelConsumption 0 and emission 0.
C17_UnknownModeGivesZero ==
    /\ (IsReturned("calculateFuelConsumption") /\ call.mode \notin KnownModes)
       => ret.value = Lit(0, 0)
    /\ (/\ IsReturned("calculateComprehensiveEmission")
        /\ call.mode \notin KnownModes)
       => /\ ret.value.fuelConsumption = Lit(0, 0)
          /\ ret.value.emission = Lit(0, 0)

\* C18: calculateEmission uses the fossil-fuel factor 2.6 iff the energy
\* source is 'bahan_bakar', absent or not one of the four recognized sources;
\* each recognized source uses its own factor: listrik_grid 0.85, biofuel 0.5,
\* listrik_renewable 0.
C18_EmissionFactorByEnergySource ==
    IsReturned("calculateEmission")
    => ret.value = Mul(call.fuelConsumption,
                       StatedEmissionFactor(call.energySource))

(***************************************************************************)
(* Properties of the App component (checked under Spec)                    *)
(***************************************************************************)
\* C6: every result record the application shows for a rail mode (ka_argo,
\* kcic), in 'aktual' and in 'prediksi' mode and for every selected transport
\* mode and toll option, carries that rail mode's static distance: 150 km for
\* ka_argo, 142 km for kcic.
C6_RailRecordsCarryStaticDistance ==
    \A i \in DOMAIN calculationData :
        LET record == calculationData[i]
        IN  /\ record.mode = "ka_argo" => record.distance = Lit(150, 0)
            /\ record.mode = "kcic" => record.distance = Lit(142, 0)

\* what the application stores for a record's mode and distance when the
\* record's scenario has cuaca 'normal': the rounded fuel consumption and
\* emission of the calculator, the weather pass contributing nothing
StoredWithNormalWeather(record) ==
    LET normal == [record.scenario EXCEPT !.cuaca = "normal"]
        fuel   == StatedFuel(record.mode, record.distance, normal)
    IN  [fuelConsumption |-> Round3(fuel),
         emission        |-> Round3(Mul(fuel, StatedEmissionFactor(
                                                  record.scenario.energy)))]

\* C20: in the results the application stores, cuaca 'hujan_ringan' makes
\* fuelConsumption and emission exactly 1.05 times the values obtained with
\* cuaca 'normal', and 'hujan_lebat' exactly 1.10 times, all other parameters
\* equal.
C20_ScenarioWeatherAsAdvertised ==
    \A i \in DOMAIN calculationData :
        LET record == calculationData[i]
            normal == StoredWithNormalWeather(record)
            times(k) == /\ record.fuelConsumption = Mul(normal.fuelConsumption, k)
                        /\ record.emission = Mul(normal.emission, k)
        IN  /\ record.scenario.cuaca = "hujan_ringan" => times(Lit(105, 2))
            /\ record.scenario.cuaca = "hujan_lebat" => times(Lit(11, 1))

(***************************************************************************)
(* Properties of getWeatherAdjustmentFactor (checked under SpecWeather)    *)
(***************************************************************************)
\* a weather record with a current observation whose condition is a text or
\* is absent
IsSnapshot(weatherData) ==
    /\ weatherData.t = "object" /\ weatherData.current.t = "object"
    /\ weatherData.current.condition.t \in {"string", "undefined", "null"}

\* C10: getWeatherAdjustmentFactor returns rainMul * tempMul * windMul from
\* base 1.0, where windMul is 1.02 iff the wind speed is strictly above
\* 15 km/h; temperature 40, wind 20, 'heavy rain' gives 1.10 * 1.03 * 1.02 =
\* 1.15566.
C10_FactorIsProductWithStrictWind ==
    (IsReturned("getWeatherAdjustmentFactor") /\ IsSnapshot(call.weatherData))
    => LET current == call.weatherData.current
           windy   == /\ current.windSpeed.t = "number"
                      /\ Less(Lit(15, 0), current.windSpeed)
           windMul == IF windy THEN 102 ELSE 100
       IN  /\ \E rainMul \in {100, 105, 110}, tempMul \in {100, 103} :
                ret.value = Lit(rainMul * tempMul * windMul, 6)
           /\ (/\ current.condition = CondHeavyRain
               /\ current.temperature = Lit(40, 0)
               /\ current.windSpeed = Lit(20, 0))
              => ret.value = Lit(115566, 5)

C10_Witness ==
    /\ IsReturned("getWeatherAdjustmentFactor")
    /\ IsSnapshot(call.weatherData)
    /\ call.weatherData.current.condition = CondHeavyRain
    /\ call.weatherData.current.temperature = Lit(40, 0)
    /\ call.weatherData.current.windSpeed = Lit(20, 0)
    /\ ret.value = Lit(115566, 5)
\* the condition text as the function reads it: lower-cased, '' when absent
ConditionText(current) ==
    IF current.condition.t = "string" THEN toLowerCase(current.condition)
    ELSE Str(<<>>)

\* the rain multiplier, in hundredths, as the specification states it
StatedRainMul(text) ==
    IF includes(text, LightRain) THEN 105
    ELSE IF includes(text, HeavyRain) \/ includes(text, Rain) THEN 110
    ELSE 100

\* C11: the rain multiplier is chosen by case-insensitive substring matching
\* on the condition text: 1.05 if it contains 'light rain', otherwise 1.10 if
\* it contains 'heavy rain' or the generic word 'rain', otherwise 1.0; at most
\* one rain multiplier is applied.  Stated for the texts that are not in
\* Indonesian (those without 'hujan').
C11_RainMultiplierBySubstring ==
    (/\ IsReturned("getWeatherAdjustmentFactor")
     /\ IsSnapshot(call.weatherData)
     /\ ~includes(ConditionText(call.weatherData.current), Hujan))
    => \E tempMul \in {100, 103}, windMul \in {100, 102} :
          ret.value = Lit(StatedRainMul(ConditionText(call.weatherData.current))
                          * tempMul * windMul, 6)

\* C12: a snapshot whose temperature is below 15 or above 35 degrees, 0 and
\* negative values included, gets the 1.03 extreme-temperature multiplier; a
\* temperature in [15, 35] does not.
C12_ExtremeTemperatureMultiplier ==
    (/\ IsReturned("getWeatherAdjustmentFactor")
     /\ IsSnapshot(call.weatherData)
     /\ call.weatherData.current.temperature.t = "number")
    => LET temperature == call.weatherData.current.temperature
           tempMul     == IF \/ Less(temperature, Lit(15, 0))
                             \/ Less(Lit(35, 0), temperature)
                          THEN 103 ELSE 100
       IN  \E rainMul \in {100, 105, 110}, windMul \in {100, 102} :
              ret.value = Lit(rainMul * tempMul * windMul, 6)

\* an input for which the fallback is stated: no record, no 'current' record,
\* a 'current' record with every field missing, or a condition that is no text
IsMalformed(weatherData) ==
    \/ weatherData.t \in {"undefined", "null"}
    \/ weatherData.current.t \in {"undefined", "null"}
    \/ /\ weatherData.current.condition.t \in {"undefined", "null"}
       /\ weatherData.current.temperature.t = "undefined"
       /\ weatherData.current.windSpeed.t = "undefined"
    \/ weatherData.current.condition.t \notin {"string", "undefined", "null"}

\* C13: getWeatherAdjustmentFactor never raises an error: every call returns a
\* number, and null/undefined input, input without a 'current' record, missing
\* fields and a condition that is no text give the fallback factor 1.0.
C13_WeatherFactorNeverRaises ==
    (call.fn = "getWeatherAdjustmentFactor" /\ ret # Pending)
    => /\ ret.status = "returned"
       /\ ret.value.t = "number" /\ ~ret.value.nan
       /\ IsMalformed(call.weatherData) => ret.value = Lit(1, 0)

C13_Witness ==
    /\ IsReturned("getWeatherAdjustmentFactor")
    /\ call.weatherData.t = "object"
    /\ call.weatherData.current.t = "object"
    /\ call.weatherData.current.condition = Lit(3, 0)
    /\ call.weatherData.current.temperature = Lit(40, 0)
    /\ ret.value = Lit(1, 0)

(***************************************************************************)
(* Properties of bmkgService.js (checked under SpecBmkg)                   *)
(***************************************************************************)
\* the lookup failed to fetch weather: no region code to ask for, a network
\* error or timeout, or a payload reporting an error or 404
FetchFailed(lookup) ==
    /\ lookup.status = "fulfilled"
    /\ \/ lookup.received = NoResponse
       \/ lookup.received.t = "error"
       \/ /\ lookup.received.t = "response"
          /\ lookup.received.data.t = "object"
          /\ \/ lookup.received.data.error
             \/ lookup.received.data.statusCode = 404

IsMockResult(value) ==
    /\ value.success
    /\ "isMock" \in DOMAIN value /\ value.isMock = TRUE
    /\ value.data.isMock = TRUE

\* C14: for every kind of weather-fetch failure (missing region code, network
\* error, request timeout, HTTP/API error payload) getCurrentWeather resolves
\* to a successful result carrying a mock snapshot flagged isMock: true; it
\* never resolves to a failure result and never rejects.
C14_FetchFailureGivesMock ==
    (/\ call.fn = "getCurrentWeather" /\ ret # Pending
     /\ FetchFailed(lookups[1]))
    => ret.status = "returned" /\ IsMockResult(ret.value)

\* C19: getRouteWeatherData issues one lookup per region before any of them
\* settles and builds the aggregate only after every lookup has settled; a
\* lookup that fails never aborts the aggregate (success: true) and its region
\* is represented by a mock snapshot, so that the aggregate has one entry per
\* requested region, in request order.
C19_AggregateHasEveryRegion ==
    (call.fn = "getRouteWeatherData" /\ call.regions.t = "array")
    => LET regions == call.regions.items
       IN  /\ awaiting => Len(lookups) = Len(regions)
           /\ ret # Pending
              => /\ \A i \in DOMAIN lookups : lookups[i].status = "fulfilled"
                 /\ ret.status = "returned" /\ ret.value.success
                 /\ Len(ret.value.data.regions) = Len(regions)
                 /\ \A i \in DOMAIN regions :
                       /\ ret.value.data.regions[i].regionCode = regions[i]
                       /\ FetchFailed(lookups[i])
                          => ret.value.data.regions[i].weather.isMock = TRUE

(***************************************************************************)
(* Properties of estimateRouteAdjustments (checked under SpecRoute)        *)
(***************************************************************************)
\* route data with a distance, a duration and a list of texts as warnings
IsRouteSummary(routeData) ==
    /\ routeData.t = "object"
    /\ routeData.warnings \in QuietWarningsArgs \cup BusyWarningsArgs
    /\ routeData.distance.t = "object" /\ routeData.duration.t = "object"

\* the urban multiplier, in hundredths, of km / hours (both in hundredths):
\* x / 0 is infinite for x > 0 and not a number for x = 0
StatedUrban(km, hours) ==
    IF hours = 0 THEN (IF km > 0 THEN 95 ELSE 100)
    ELSE IF km < 30 * hours THEN 115
    ELSE IF km > 80 * hours THEN 95
    ELSE 100

\* C15: estimateRouteAdjustments returns traffic = 1.10 iff at least one
\* warning contains 'traffic' or 'congestion' in any letter case (else 1.0),
\* and urban = 1.15 iff distanceKm / durationHours < 30, 0.95 iff it is > 80
\* and 1.0 otherwise, the speeds 30 and 80 themselves included; each output
\* depends on its own input only, and none on the mode.
C15_RouteAdjustments ==
    (IsReturned("estimateRouteAdjustments") /\ IsRouteSummary(call.routeData))
    => /\ ret.value.traffic
            = IF call.routeData.warnings \in BusyWarningsArgs
              THEN Lit(11, 1) ELSE Lit(1, 0)
       /\ \E km \in KmArgs, hours \in HoursArgs :
             /\ call.routeData.distance.km = Lit(km, 2)
             /\ call.routeData.duration.hours = Lit(hours, 2)
             /\ ret.value.urban = Lit(StatedUrban(km, hours), 2)

C15_Witness ==
    /\ IsReturned("estimateRouteAdjustments")
    /\ call.routeData.t = "object"
    /\ call.routeData.warnings = List(<<WarningToll, WarningCongestion>>)
    /\ call.routeData.distance = Object([km |-> Lit(7500, 2)])
    /\ call.routeData.duration = Object([hours |-> Lit(250, 2)])
    /\ call.mode = "kcic"
    /\ ret.value.traffic = Lit(11, 1)
    /\ ret.value.urban = Lit(1, 0)

(***************************************************************************)
(* utils/errorHandler.js: retryOperation.  retry.invoked counts the calls  *)
(* of the operation, retry.outcomes lists what they settled with and       *)
(* retry.waits the delays waited.                                          *)
(***************************************************************************)
Thrown(e) == [status |-> "thrown", error |-> e]

\* the value of a whole number of either sign
NumberOf(x) == IF x.neg THEN 0 - BigToNat(x.mant) ELSE BigToNat(x.mant)

\* the default parameters maxRetries = 3 and delay = 1000
MaxRetriesOf(c) ==
    IF c.maxRetries = Undefined THEN 3 ELSE NumberOf(c.maxRetries)

DelayOf(c) == IF c.delay = Undefined THEN Lit(1000, 0) ELSE c.delay

\* the wait also taken after the last attempt
ShouldWait_OrEqual(i, maxRetries) == i <= maxRetries

\* if (i < maxRetries)
ShouldWait(i, maxRetries) == i < maxRetries

\* what an operation settles with: a value, or an error
OperationOutcomes ==
    {[status |-> "fulfilled", value |-> v] : v \in {Lit(42, 0), Undefined}}
    \cup {[status |-> "rejected", error |-> e] :
             e \in {Error("ERR_NETWORK", NetworkError),
                    Error("ECONNABORTED", TimeoutExceeded)}}

MaxRetriesArgs == {Undefined, Lit(-1, 0), Lit(0, 0), Lit(1, 0), Lit(2, 0)}

DelayArgs == {Undefined, Lit(0, 0), Lit(250, 0)}

RetryCalls ==
    [fn : {"retryOperation"}, maxRetries : MaxRetriesArgs, delay : DelayArgs]

InitRetry == call \in RetryCalls /\ ret = Pending /\ InitApp /\ InitService

\* retryOperation up to its first "await operation()", or to its end when
\* the loop has no iteration
CallRetryOperation ==
    /\ call.fn = "retryOperation" /\ ret = Pending /\ retry.pc = "idle"
    /\ IF 0 <= MaxRetriesOf(call)
       THEN /\ retry' = [retry EXCEPT !.pc = "operation", !.invoked = 1]
            /\ UNCHANGED ret
       ELSE /\ retry' = [retry EXCEPT !.pc = "done"]
            /\ ret' = Thrown(retry.lastError)
    /\ UNCHANGED <<call, lookups, awaiting, appVars, routeRequests>>

\* the operation settles: its value is returned, or its error is caught and
\* the delay is started, or the loop ends and the last error is thrown
OperationSettles ==
    \E outcome \in OperationOutcomes :
        /\ retry.pc = "operation"
        /\ IF outcome.status = "fulfilled"
           THEN /\ retry' = [retry EXCEPT !.pc = "done",
                                          !.outcomes = Append(@, outcome)]
                /\ ret' = Returned(outcome.value)
           ELSE IF ShouldWait(retry.i, MaxRetriesOf(call))
           THEN /\ retry' = [retry EXCEPT !.pc = "delay",
                                          !.outcomes = Append(@, outcome),
                                          !.lastError = outcome.error,
                                          !.waits = Append(@, DelayOf(call))]
                /\ UNCHANGED ret
           ELSE IF retry.i + 1 <= MaxRetriesOf(call)
           THEN /\ retry' = [retry EXCEPT !.i = @ + 1,
                                          !.invoked = @ + 1,
                                          !.outcomes = Append(@, outcome),
                                          !.lastError = outcome.error]
                /\ UNCHANGED ret
           ELSE /\ retry' = [retry EXCEPT !.pc = "done", !.i = @ + 1,
                                          !.outcomes = Append(@, outcome),
                                          !.lastError = outcome.error]
                /\ ret' = Thrown(outcome.error)
        /\ UNCHANGED <<call, lookups, awaiting, appVars, routeRequests>>

\* the timer of the delay fires: the next iteration calls the operation, or
\* the loop ends and the last error is thrown
TimerFires ==
    /\ retry.pc = "delay"
    /\ IF retry.i + 1 <= MaxRetriesOf(call)
       THEN /\ retry' = [retry EXCEPT !.pc = "operation", !.i = @ + 1,
                                      !.invoked = @ + 1]
            /\ UNCHANGED ret
       ELSE /\ retry' = [retry EXCEPT !.pc = "done", !.i = @ + 1]
            /\ ret' = Thrown(retry.lastError)
    /\ UNCHANGED <<call, lookups, awaiting, appVars, routeRequests>>

NextRetry ==
    \/ CallRetryOperation
    \/ OperationSettles
    \/ TimerFires

SpecRetry == InitRetry /\ [][NextRetry]_vars

(***************************************************************************)
(* services/bmkgService.js: getWeatherForecast.  The dates and the cloud   *)
(* cover of a forecast entry are left out.                                 *)
(***************************************************************************)
\* the default parameter days = 3
DaysOf(c) == IF c.days = Undefined THEN 3 ELSE NumberOf(c.days)

\* the values Math.random can lead a forecast entry to: the ends of the
\* ranges of the variations of temperature, humidity and wind speed
Variations ==
    {[temperature |-> -3, humidity |-> -10, windSpeed |-> -2],
     [temperature |-> 3, humidity |-> 10, windSpeed |-> 0]}

Clamp(lo, x, hi) == IF x < lo THEN lo ELSE IF x > hi THEN hi ELSE x

\* one entry of generateForecastFromCurrent, for whole numbers
ForecastEntry(current, variation) ==
    Object([temperature |->
                Lit(NumberOf(OrElse(current.temperature, Lit(25, 0)))
                    + variation.temperature, 0),
            humidity |->
                Lit(Clamp(30, NumberOf(OrElse(current.humidity, Lit(70, 0)))
                              + variation.humidity, 90), 0),
            condition   |-> OrElse(current.condition, Normal),
            conditionEn |-> OrElse(current.conditionEn, Normal),
            windSpeed |->
                Lit(Clamp(0, NumberOf(OrElse(current.windSpeed, Lit(5, 0)))
                             + variation.windSpeed, 1000), 0)])

\* the forecasts generateForecastFromCurrent can build
generateForecastFromCurrent(currentWeather, days) ==
    {[i \in 1 .. days |-> ForecastEntry(currentWeather.current, variations[i])] :
        variations \in [1 .. days -> Variations]}

MockForecastEntries ==
    {Object([temperature |-> numbers[1],
             humidity    |-> numbers[2],
             condition   |-> condition,
             conditionEn |->
                 IF condition = Cerah THEN Clear
                 ELSE IF condition = Berawan THEN Cloudy
                 ELSE IF condition = HujanRingan THEN LightRain
                 ELSE Normal,
             windSpeed   |-> numbers[3],
             isMock      |-> TRUE]) :
        condition \in {Cerah, Berawan, HujanRingan, Normal},
        numbers \in {<<Lit(22, 0), Lit(60, 0), Lit(3, 0)>>,
                     <<Lit(30, 0), Lit(90, 0), Lit(10, 0)>>}}

\* the forecasts getMockForecastData can build
getMockForecastData(regionCode, days) == [1 .. days -> MockForecastEntries]

\* the results of the fallback, in the else branch and in the catch block
MockForecast(regionCode, days) ==
    {[success |-> TRUE, data |-> forecast, isMock |-> TRUE] :
        forecast \in getMockForecastData(regionCode, days)}

\* a successful lookup taken as real weather, flagged as mock or not
ResumeGetWeatherForecast_MockFlagIgnored(currentWeather, regionCode, days) ==
    IF currentWeather.success
    THEN {[success |-> TRUE, data |-> forecast] :
             forecast \in generateForecastFromCurrent(currentWeather.data, days)}
    ELSE MockForecast(regionCode, days)

\* getWeatherForecast after "await getCurrentWeather(regionCode)": the
\* results it can return
ResumeGetWeatherForecast(currentWeather, regionCode, days) ==
    IF /\ currentWeather.success
       /\ ~("isMock" \in DOMAIN currentWeather /\ currentWeather.isMock)
    THEN {[success |-> TRUE, data |-> forecast] :
             forecast \in generateForecastFromCurrent(currentWeather.data, days)}
    ELSE MockForecast(regionCode, days)

DaysArgs == {Undefined, Lit(0, 0), Lit(1, 0), Lit(2, 0)}

ForecastCalls ==
    [fn : {"getWeatherForecast"}, regionCode : RegionCodeArgs, days : DaysArgs]

InitForecast == call \in ForecastCalls /\ ret = Pending /\ InitApp /\ InitService

\* getWeatherForecast up to "await getCurrentWeather(regionCode)", or to the
\* end of its catch block when the region code is missing
CallGetWeatherForecast ==
    /\ call.fn = "getWeatherForecast" /\ ret = Pending
    /\ lookups = <<>> /\ ~awaiting
    /\ IF ~validateParams([regionCode |-> call.regionCode],
                          <<"regionCode">>).valid
       THEN /\ \E result \in MockForecast(call.regionCode, DaysOf(call)) :
                  ret' = Returned(result)
            /\ UNCHANGED <<lookups, awaiting>>
       ELSE \E mock \in getMockWeatherData :
               /\ lookups' = <<StartGetCurrentWeather(call.regionCode, mock)>>
               /\ awaiting' = TRUE
               /\ UNCHANGED ret
    /\ UNCHANGED <<call, retry, appVars, routeRequests>>

FinishGetWeatherForecast ==
    /\ awaiting
    /\ call.fn = "getWeatherForecast"
    /\ lookups[1].status = "fulfilled"
    /\ \E result \in ResumeGetWeatherForecast(lookups[1].value, call.regionCode,
                                              DaysOf(call)) :
          ret' = Returned(result)
    /\ awaiting' = FALSE
    /\ UNCHANGED <<call, lookups, retry, appVars, routeRequests>>

NextForecast ==
    \/ CallGetWeatherForecast
    \/ AxiosSettles
    \/ FinishGetWeatherForecast

SpecForecast == InitForecast /\ [][NextForecast]_vars

(***************************************************************************)
(* services/directionsService.js: getRouteData and getRouteOptions.  The   *)
(* texts, addresses, steps, polyline, bounds and copyrights of a route are *)
(* left out; distances are whole metres and durations whole seconds, as    *)
(* the API gives them.                                                     *)
(***************************************************************************)
ApiKeyTidakDitemukan ==
    Str(<<"G", "o", "o", "g", "l", "e", " ", "M", "a", "p", "s", " ", "A",
          "P", "I", " ", "k", "e", "y", " ", "t", "i", "d", "a", "k", " ",
          "d", "i", "t", "e", "m", "u", "k", "a", "n">>)

TidakAdaRute ==
    Str(<<"T", "i", "d", "a", "k", " ", "a", "d", "a", " ", "r", "u", "t",
          "e", " ", "y", "a", "n", "g", " ", "d", "i", "t", "e", "m", "u",
          "k", "a", "n">>)

GoogleDirectionsApiError ==
    Str(<<"G", "o", "o", "g", "l", "e", " ", "D", "i", "r", "e", "c", "t",
          "i", "o", "n", "s", " ", "A", "P", "I", " ", "e", "r", "r", "o",
          "r", ":", " ">>)

CannotReadStatus ==
    Str(<<"C", "a", "n", "n", "o", "t", " ", "r", "e", "a", "d", " ", "p",
          "r", "o", "p", "e", "r", "t", "i", "e", "s", " ", "o", "f", " ",
          "n", "u", "l", "l", " ", "(", "r", "e", "a", "d", "i", "n", "g",
          " ", "'", "s", "t", "a", "t", "u", "s", "'", ")">>)

CannotReadDistance ==
    Str(<<"C", "a", "n", "n", "o", "t", " ", "r", "e", "a", "d", " ", "p",
          "r", "o", "p", "e", "r", "t", "i", "e", "s", " ", "o", "f", " ",
          "u", "n", "d", "e", "f", "i", "n", "e", "d", " ", "(", "r", "e",
          "a", "d", "i", "n", "g", " ", "'", "d", "i", "s", "t", "a", "n",
          "c", "e", "'", ")">>)

GagalSemuaOpsi ==
    Str(<<"G", "a", "g", "a", "l", " ", "m", "e", "n", "g", "a", "m", "b",
          "i", "l", " ", "d", "a", "t", "a", " ", "r", "u", "t", "e", " ",
          "u", "n", "t", "u", "k", " ", "s", "e", "m", "u", "a", " ", "o",
          "p", "s", "i">>)

\* the catch block of getRouteData
CatchGetRouteData(err) ==
    IF err.code = "ECONNABORTED" \/ includes(err.message, Timeout)
    THEN handleNetworkError(err, "Google Directions API request")
    ELSE handleError(err, "Gagal mengambil data rute. Periksa koneksi internet dan coba lagi.")

\* getRouteData up to "await axios.get(...)": the invocation is left
\* requesting, or has ended in the catch block
StartGetRouteData(params, apiKey) ==
    LET validation == validateParams([origin |-> params.origin,
                                      destination |-> params.destination],
                                     <<"origin", "destination">>)
        invocation == [origin |-> params.origin,
                       destination |-> params.destination,
                       avoidTolls |-> params.avoidTolls,
                       received |-> NoResponse]
    IN  IF ~validation.valid
        THEN invocation @@
             [status |-> "fulfilled",
              value |-> CatchGetRouteData(Error(NoValue, validation.error))]
        ELSE IF apiKey = ""
        THEN invocation @@
             [status |-> "fulfilled",
              value |-> CatchGetRouteData(Error(NoValue, ApiKeyTidakDitemukan))]
        ELSE invocation @@
             [status |-> "requesting",
              query |-> [origin |-> params.origin,
                         destination |-> params.destination,
                         key |-> apiKey, units |-> "metric",
                         mode |-> "driving",
                         avoid |-> IF params.avoidTolls THEN "tolls"
                                   ELSE NoValue]]

\* routeData of the first leg of the first route:
\* Math.round(metres / 1000 * 100) / 100 and Math.round(seconds / 3600 * 100) / 100
RouteDataOf(firstRoute) ==
    LET leg == firstRoute.legs.items[1]
    IN  Object([distance |->
                    Object([value |-> Lit(leg.distance.value, 0),
                            km |-> Lit((leg.distance.value + 5) \div 10, 2)]),
                duration |->
                    Object([value |-> Lit(leg.duration.value, 0),
                            hours |-> Lit((2 * leg.duration.value + 36)
                                              \div 72, 2)]),
                warnings |-> OrElse(firstRoute.warnings, List(<<>>))])

\* every answer of the API taken as a route found
ResumeGetRouteData_StatusIgnored(received) ==
    IF received.t = "error" THEN CatchGetRouteData(received)
    ELSE IF received.data.t = "null"
    THEN CatchGetRouteData(Error(NoValue, CannotReadStatus))
    ELSE IF ~Truthy(received.data.routes) \/ received.data.routes.items = <<>>
    THEN [success |-> TRUE, data |-> Undefined]
    ELSE IF received.data.routes.items[1].legs.items = <<>>
    THEN CatchGetRouteData(Error(NoValue, CannotReadDistance))
    ELSE [success |-> TRUE,
          data |-> RouteDataOf(received.data.routes.items[1])]

\* getRouteData from the settling of axios.get to its return
ResumeGetRouteData(received) ==
    IF received.t = "error" THEN CatchGetRouteData(received)
    ELSE IF received.data.t = "null"
    THEN CatchGetRouteData(Error(NoValue, CannotReadStatus))
    ELSE IF received.data.status # "OK"
    THEN CatchGetRouteData(
             Error(NoValue,
                   Str(GoogleDirectionsApiError.chars
                       \o <<received.data.status, " ", "-", " ">>
                       \o OrElse(received.data.error_message,
                                 UnknownError).chars)))
    ELSE IF ~Truthy(received.data.routes) \/ received.data.routes.items = <<>>
    THEN CatchGetRouteData(Error(NoValue, TidakAdaRute))
    ELSE IF received.data.routes.items[1].legs.items = <<>>
    THEN CatchGetRouteData(Error(NoValue, CannotReadDistance))
    ELSE [success |-> TRUE,
          data |-> RouteDataOf(received.data.routes.items[1])]

\* a route option kept only when both options were found
FinishGetRouteOptions_BothRequired(tollRoute, noTollRoute) ==
    IF /\ tollRoute.status = "fulfilled" /\ tollRoute.value.success
       /\ noTollRoute.status = "fulfilled" /\ noTollRoute.value.success
    THEN [success |-> TRUE,
          data |-> [withTolls |-> tollRoute.value.data,
                    withoutTolls |-> noTollRoute.value.data]]
    ELSE handleError(Error(NoValue, GagalSemuaOpsi),
                     "Gagal mengambil opsi rute")

\* getRouteOptions after "await Promise.allSettled(...)"
FinishGetRouteOptions(tollRoute, noTollRoute) ==
    LET withTolls ==
            IF tollRoute.status = "fulfilled" /\ tollRoute.value.success
            THEN tollRoute.value.data ELSE Null
        withoutTolls ==
            IF noTollRoute.status = "fulfilled" /\ noTollRoute.value.success
            THEN noTollRoute.value.data ELSE Null
    IN  IF ~Truthy(withTolls) /\ ~Truthy(withoutTolls)
        THEN handleError(Error(NoValue, GagalSemuaOpsi),
                         "Gagal mengambil opsi rute")
        ELSE [success |-> TRUE,
              data |-> [withTolls |-> withTolls,
                        withoutTolls |-> withoutTolls]]

(***************************************************************************)
(* Callers of directionsService.js and the Directions API                  *)
(***************************************************************************)
InvalidKey ==
    Str(<<"T", "h", "e", " ", "p", "r", "o", "v", "i", "d", "e", "d", " ",
          "A", "P", "I", " ", "k", "e", "y", " ", "i", "s", " ", "i", "n",
          "v", "a", "l", "i", "d", ".">>)

Leg(metres, seconds) ==
    [distance |-> [value |-> metres], duration |-> [value |-> seconds]]

Directions(status, message, routes) ==
    Object([status |-> status, error_message |-> message, routes |-> routes])

\* what the Directions API answers: a route, a route with a warning, no
\* route, a route without legs, a refusal, or nothing; or axios fails
DirectionsResponses ==
    {[t |-> "response", data |-> data] :
        data \in {Directions("OK", Undefined,
                      List(<<[legs |-> List(<<Leg(148725, 9000)>>),
                              warnings |-> Undefined]>>)),
                  Directions("OK", Undefined,
                      List(<<[legs |-> List(<<Leg(153210, 11730)>>),
                              warnings |-> List(<<WarningTraffic>>)]>>)),
                  Directions("OK", Undefined, List(<<>>)),
                  Directions("OK", Undefined, Undefined),
                  Directions("OK", Undefined,
                      List(<<[legs |-> List(<<>>), warnings |-> Undefined]>>)),
                  Directions("ZERO_RESULTS", Undefined, List(<<>>)),
                  Directions("REQUEST_DENIED", InvalidKey, List(<<>>)),
                  Directions("UNKNOWN_ERROR", GatewayTimeout, List(<<>>)),
                  Null}}
    \cup {Error("ECONNABORTED", TimeoutExceeded),
          Error("ERR_NETWORK", NetworkError),
          Error("ERR_BAD_RESPONSE", RequestFailed)}

OriginArgs == {"", "Bandung"}

DestinationArgs == {"", "Jakarta"}

\* import.meta.env.VITE_GOOGLE_MAPS_API_KEY, '' when it is not set
ApiKeyArgs == {"", "AIza"}

DirectionsCalls ==
    [fn : {"getRouteData"}, origin : OriginArgs, destination : DestinationArgs,
     avoidTolls : BOOLEAN, apiKey : ApiKeyArgs]
    \cup [fn : {"getRouteOptions"}, origin : OriginArgs,
          destination : DestinationArgs, apiKey : ApiKeyArgs]

InitDirections ==
    call \in DirectionsCalls /\ ret = Pending /\ InitApp /\ InitService

CallGetRouteData ==
    /\ call.fn = "getRouteData" /\ ret = Pending /\ routeRequests = <<>>
    /\ LET invocation == StartGetRouteData(call, call.apiKey)
       IN  /\ routeRequests' = <<invocation>>
           /\ ret' = IF invocation.status = "fulfilled"
                     THEN Returned(invocation.value) ELSE ret
    /\ UNCHANGED <<call, appVars, serviceVars>>

\* getRouteOptions up to "await Promise.allSettled(...)": both getRouteData
\* invocations are made before either settles
CallGetRouteOptions ==
    /\ call.fn = "getRouteOptions" /\ ret = Pending
    /\ routeRequests = <<>> /\ ~awaiting
    /\ routeRequests' =
           <<StartGetRouteData([origin |-> call.origin,
                                destination |-> call.destination,
                                avoidTolls |-> FALSE], call.apiKey),
             StartGetRouteData([origin |-> call.origin,
                                destination |-> call.destination,
                                avoidTolls |-> TRUE], call.apiKey)>>
    /\ awaiting' = TRUE
    /\ UNCHANGED <<call, ret, lookups, retry, appVars>>

\* the request of one invocation settles and the invocation runs to its end;
\* the requests under way settle in any order
DirectionsSettles ==
    \E i \in DOMAIN routeRequests, received \in DirectionsResponses :
        /\ routeRequests[i].status = "requesting"
        /\ LET value == ResumeGetRouteData(received)
           IN  /\ routeRequests' =
                      [routeRequests EXCEPT ![i] =
                          [origin      |-> @.origin,
                           destination |-> @.destination,
                           avoidTolls  |-> @.avoidTolls,
                           query       |-> @.query,
                           status      |-> "fulfilled",
                           received    |-> received,
                           value       |-> value]]
               /\ ret' = IF call.fn = "getRouteData"
                         THEN Returned(value) ELSE ret
        /\ UNCHANGED <<call, appVars, serviceVars>>

ResumeGetRouteOptions ==
    /\ awaiting
    /\ call.fn = "getRouteOptions"
    /\ \A i \in DOMAIN routeRequests : routeRequests[i].status = "fulfilled"
    /\ ret' = Returned(FinishGetRouteOptions(routeRequests[1], routeRequests[2]))
    /\ awaiting' = FALSE
    /\ UNCHANGED <<call, lookups, retry, routeRequests, appVars>>

NextDirections ==
    \/ CallGetRouteData
    \/ CallGetRouteOptions
    \/ DirectionsSettles
    \/ ResumeGetRouteOptions

SpecDirections == InitDirections /\ [][NextDirections]_vars

(***************************************************************************)
(* Callers of the three adjustment functions: one call of                  *)
(* getAdjustmentFactor, getWeatherAdjustmentFactor or                      *)
(* estimateRouteAdjustments, then its return.                              *)
(***************************************************************************)
FactorCalls ==
    [fn : {"getAdjustmentFactor"}, params : AdjustmentArgs]
    \cup WeatherCalls \cup RouteCalls

InitFactors == call \in FactorCalls /\ ret = Pending /\ InitApp /\ InitService

NextFactors ==
    \/ CallGetAdjustmentFactor
    \/ CallGetWeatherAdjustmentFactor
    \/ CallEstimateRouteAdjustments

SpecFactors == InitFactors /\ [][NextFactors]_vars

(***************************************************************************)
(* Properties of the adjustment factors (checked under SpecFactors)        *)
(***************************************************************************)
\* lo <= x <= hi
Within(x, lo, hi) ==
    x.t = "number" /\ ~x.nan /\ ~Less(x, lo) /\ ~Less(hi, x)

\* no traffic, weather or load value of the scenario has a multiplier
NoScenarioTrigger(params) ==
    /\ params.traffic \notin {"padat", "sangat_padat"}
    /\ params.cuaca \notin {"hujan_ringan", "hujan_lebat"}
    /\ params.loadFactor # "peak"

\* no rain word in the condition, no temperature and no wind speed, or a
\* temperature within [15, 35] and a wind speed of at most 15
NoWeatherTrigger(weatherData) ==
    \/ ~IsSnapshot(weatherData)
    \/ LET current == weatherData.current
       IN  /\ ~includes(ConditionText(current), Hujan)
           /\ ~includes(ConditionText(current), Rain)
           /\ \/ current.temperature.t = "undefined"
              \/ /\ ~Less(current.temperature, Lit(15, 0))
                 /\ ~Less(Lit(35, 0), current.temperature)
           /\ \/ current.windSpeed.t = "undefined"
              \/ ~Less(Lit(15, 0), current.windSpeed)

\* C22: every adjustment factor is bounded: getAdjustmentFactor is within
\* [1.0, 1.518], getWeatherAdjustmentFactor within [1.0, 1.15566], and
\* estimateRouteAdjustments yields traffic in {1.0, 1.1} and urban in
\* {0.95, 1.0, 1.15}; an input with no triggering condition yields exactly 1.0.
C22_FactorsBounded ==
    /\ IsReturned("getAdjustmentFactor")
       => /\ Within(ret.value, Lit(1, 0), Lit(1518, 3))
          /\ NoScenarioTrigger(call.params) => ret.value = Lit(1, 0)
    /\ IsReturned("getWeatherAdjustmentFactor")
       => /\ Within(ret.value, Lit(1, 0), Lit(115566, 5))
          /\ NoWeatherTrigger(call.weatherData) => ret.value = Lit(1, 0)
    /\ IsReturned("estimateRouteAdjustments")
       => /\ ret.value.traffic \in {Lit(1, 0), Lit(11, 1)}
          /\ ret.value.urban \in {Lit(95, 2), Lit(1, 0), Lit(115, 2)}
          /\ (/\ IsRouteSummary(call.routeData)
              /\ call.routeData.warnings \in QuietWarningsArgs
              /\ call.routeData.distance.km = Lit(4000, 2)
              /\ call.routeData.duration.hours = Lit(100, 2))
             => ret.value.traffic = Lit(1, 0) /\ ret.value.urban = Lit(1, 0)

\* the largest scenario factor is reached
C22_Witness ==
    /\ IsReturned("getAdjustmentFactor")
    /\ call.params.traffic = "sangat_padat"
    /\ call.params.cuaca = "hujan_lebat"
    /\ call.params.loadFactor = "peak"
    /\ ret.value = Lit(1518, 3)

(***************************************************************************)
(* Properties of App.calculateEmissions (checked under Spec and SpecLive)  *)
(***************************************************************************)
RoadModes == {"mobil", "bus", "motor"}

\* the effect of the last render has run and no invocation is suspended
Settled == runs = <<>> /\ ~effectPending

\* C23: with a route and a road mode (mobil, bus, motor) selected,
\* calculateEmissions asks the route source for the route with
\* avoidTolls = (scenario.tollOption = 'avoid_tolls') and, whether the request
\* succeeds or fails, finishes with a non-empty calculationData and error = null.
C23_RoadRunAsksRouteSource ==
    (/\ Settled
     /\ route # ""
     /\ transportMode.t = "id" /\ transportMode.id \in RoadModes)
    => /\ error = NoError
       /\ calculationData # <<>>
       /\ routeRequests # <<>>
       /\ routeRequests[Len(routeRequests)].avoidTolls
              = (appScenario.tollOption = "avoid_tolls")

\* C24: with a rail mode (ka_argo or kcic) selected, no step of App calls the
\* route source, for every route, calculation mode and toll option.
C24_RailNeverAsksRouteSource ==
    [][IsTrain(transportMode) => routeRequests' = routeRequests]_vars

\* a rail run in 'prediksi' mode with tolls avoided has completed
C24_Witness ==
    /\ Settled
    /\ IsTrain(transportMode) /\ route # ""
    /\ appMode = "prediksi" /\ appScenario.tollOption = "avoid_tolls"
    /\ Len(calculationData) = 5 /\ error = NoError
    /\ routeRequests = <<>>

\* C29: a calculateEmissions run that starts (route and transport mode both
\* selected) sets loading = true and error = null, and eventually sets
\* loading = false; where it fails, error becomes non-null and calculationData
\* keeps its value; where it succeeds, calculationData is replaced and error
\* stays null.
C29_RunSetsAndClearsLoading ==
    /\ [][/\ (/\ effectPending /\ ~effectPending'
              /\ route # "" /\ transportMode # Id(""))
             => \/ /\ Len(runs') = Len(runs) + 1
                   /\ loading' /\ error' = NoError
                   /\ calculationData' = calculationData
                \/ /\ runs' = runs
                   /\ ~loading' /\ error' # NoError
                   /\ calculationData' = calculationData
          /\ Len(runs') < Len(runs)
             => /\ ~loading' /\ error' = NoError
                /\ Len(calculationData') = Len(Head(runs).results)
                /\ calculationData' # <<>>
                /\ \A i \in DOMAIN calculationData' :
                      /\ calculationData'[i].mode = Head(runs).results[i].mode
                      /\ calculationData'[i].distance = appDistance]_vars
    /\ (loading ~> ~loading)

\* a run has failed after one that succeeded: the error is shown and the
\* records of the earlier run are kept
C29_Witness ==
    /\ Settled /\ ~loading
    /\ error = RouteCoordinatesError
    /\ calculationData # <<>>

(***************************************************************************)
(* Properties of retryOperation (checked under SpecRetry)                  *)
(***************************************************************************)
Failures(outcomes) ==
    Len(SelectSeq(outcomes, LAMBDA o : o.status = "rejected"))

Min(a, b) == IF a < b THEN a ELSE b

\* C25: retryOperation invokes the operation at most maxRetries + 1 times,
\* stops at the first attempt that succeeds and returns its value without
\* further invocations, waits 'delay' after each failed attempt except the
\* last, and rejects with the error of the last attempt if all maxRetries + 1
\* attempts fail.
C25_RetryStopsAtFirstSuccess ==
    call.fn = "retryOperation"
    => LET maxRetries == MaxRetriesOf(call)
           outcomes   == retry.outcomes
           settled    == Len(outcomes)
       IN  /\ retry.invoked <= maxRetries + 1
           /\ retry.invoked \in {settled, settled + 1}
           /\ \A k \in 1 .. settled - 1 : outcomes[k].status = "rejected"
           /\ (settled > 0 /\ outcomes[settled].status = "fulfilled")
              => /\ ret = Returned(outcomes[settled].value)
                 /\ retry.invoked = settled
           /\ Len(retry.waits) = Min(Failures(outcomes), maxRetries)
              \/ (maxRetries < 0 /\ retry.waits = <<>>)
           /\ \A w \in DOMAIN retry.waits : retry.waits[w] = DelayOf(call)
           /\ (maxRetries >= 0 /\ Failures(outcomes) = maxRetries + 1)
              => ret = Thrown(outcomes[settled].error)
           /\ (ret.status = "thrown" /\ maxRetries >= 0)
              => Failures(outcomes) = maxRetries + 1
           /\ (ret.status = "returned")
              => settled > 0 /\ outcomes[settled].status = "fulfilled"

\* the third of three attempts succeeds after two waits
C25_Witness ==
    /\ call.fn = "retryOperation" /\ call.maxRetries = Lit(2, 0)
    /\ call.delay = Lit(250, 0)
    /\ Len(retry.outcomes) = 3 /\ retry.invoked = 3
    /\ retry.waits = <<Lit(250, 0), Lit(250, 0)>>
    /\ ret = Returned(Lit(42, 0))

(***************************************************************************)
(* Properties of directionsService.js (checked under SpecDirections)       *)
(***************************************************************************)
\* the API answered with status OK and at least one route
RouteFound(received) ==
    /\ received.t = "response"
    /\ received.data.t = "object"
    /\ received.data.status = "OK"
    /\ Truthy(received.data.routes)
    /\ received.data.routes.items # <<>>

\* the invocation has ended with a route
Succeeded(invocation) ==
    invocation.status = "fulfilled" /\ invocation.value.success

\* C30: getRouteData never rejects: for a missing origin or destination, a
\* missing API key, a non-OK API status, an empty route list, a timeout or
\* any network error it resolves to an object with success: false (of type
\* 'network' for a timeout), and it resolves with success: true only when the
\* API status is OK and at least one route was returned.
C30_GetRouteDataNeverRejects ==
    (call.fn = "getRouteData" /\ ret # Pending)
    => LET received == routeRequests[1].received
       IN  /\ ret.status = "returned"
           /\ ret.value.success \in BOOLEAN
           /\ ret.value.success => RouteFound(received)
           /\ (\/ call.origin = "" \/ call.destination = ""
               \/ call.apiKey = "" \/ ~RouteFound(received))
              => ret.value.success = FALSE
           /\ (received.t = "error" /\ received.code = "ECONNABORTED")
              => ret.value.success = FALSE /\ ret.value.type = "network"

\* a request with tolls avoided that timed out
C30_Witness ==
    /\ call.fn = "getRouteData" /\ call.avoidTolls
    /\ routeRequests # <<>>
    /\ routeRequests[1].received = Error("ECONNABORTED", TimeoutExceeded)
    /\ routeRequests[1].query.avoid = "tolls"
    /\ ret.status = "returned"
    /\ ret.value.success = FALSE /\ ret.value.type = "network"

\* C26: getRouteOptions issues the with-tolls and the avoid-tolls request
\* together, waits for both to settle, and resolves with success: true iff at
\* least one of them succeeded (a failed option is null, a successful one
\* carries its data), with success: false only when both failed; it never
\* rejects.
C26_RouteOptionsSucceedWithEitherRoute ==
    call.fn = "getRouteOptions"
    => /\ routeRequests # <<>>
          => /\ Len(routeRequests) = 2
             /\ routeRequests[1].avoidTolls = FALSE
             /\ routeRequests[2].avoidTolls = TRUE
       /\ ret # Pending
          => LET tollRoute   == routeRequests[1]
                 noTollRoute == routeRequests[2]
             IN  /\ ret.status = "returned"
                 /\ tollRoute.status = "fulfilled"
                 /\ noTollRoute.status = "fulfilled"
                 /\ ret.value.success
                        = (Succeeded(tollRoute) \/ Succeeded(noTollRoute))
                 /\ ret.value.success
                    => /\ ret.value.data.withTolls
                              = IF Succeeded(tollRoute)
                                THEN tollRoute.value.data ELSE Null
                       /\ ret.value.data.withoutTolls
                              = IF Succeeded(noTollRoute)
                                THEN noTollRoute.value.data ELSE Null

\* the request with tolls timed out and the one without found a route
C26_Witness ==
    /\ call.fn = "getRouteOptions" /\ ret.status = "returned"
    /\ routeRequests[1].received = Error("ECONNABORTED", TimeoutExceeded)
    /\ RouteFound(routeRequests[2].received)
    /\ ret.value.success
    /\ ret.value.data.withTolls = Null
    /\ ret.value.data.withoutTolls.distance.km = Lit(15321, 2)

(***************************************************************************)
(* Properties of getWeatherForecast (checked under SpecForecast)           *)
(***************************************************************************)
Flagged(value) == "isMock" \in DOMAIN value /\ value.isMock = TRUE

\* C27: getWeatherForecast always resolves with success: true and exactly
\* 'days' forecast entries; the result is flagged isMock: true exactly when
\* the current-weather lookup failed, returned a failure result or returned
\* mock data (or could not be made, the region code missing), and is
\* unflagged only when real current weather was obtained.
C27_ForecastFlaggedUnlessRealWeather ==
    (call.fn = "getWeatherForecast" /\ ret # Pending)
    => /\ ret.status = "returned"
       /\ ret.value.success = TRUE
       /\ Len(ret.value.data) = DaysOf(call)
       /\ lookups = <<>> => call.regionCode = "" /\ Flagged(ret.value)
       /\ lookups # <<>>
          => /\ lookups[1].status = "fulfilled"
             /\ Flagged(ret.value)
                <=> \/ FetchFailed(lookups[1])
                    \/ ~lookups[1].value.success
                    \/ Flagged(lookups[1].value)
             /\ ~Flagged(ret.value)
                => /\ lookups[1].received.t = "response"
                   /\ lookups[1].value
                          = [success |-> TRUE,
                             data |-> processWeatherData(
                                          lookups[1].received.data)]

\* the lookup timed out and returned a failure result: a mock forecast of
\* the default three days
C27_Witness ==
    /\ call.fn = "getWeatherForecast" /\ call.days = Undefined
    /\ ret.status = "returned"
    /\ lookups # <<>>
    /\ lookups[1].received = Error("ECONNABORTED", TimeoutExceeded)
    /\ ~lookups[1].value.success
    /\ Flagged(ret.value) /\ Len(ret.value.data) = 3
====
